---- MODULE Spec2Model ----
(***************************************************************************)
(* A model of spec.py, the spec scaffold and design registrar: the ledger  *)
(* spec/index.yml, the task files spec/tasks/*.md, spec/settings.yml and   *)
(* spec/prompts.md, with the commands that read and write them.            *)
(*                                                                         *)
(* A Python str is a sequence of one-character strings, and an optional    *)
(* dictionary value is None or Some(v). A file is Absent or File(c): c is  *)
(* the text of a task file, which the header parsers read as one str, and  *)
(* the lines of every other file, which the program reads with             *)
(* read_text(path).splitlines() and writes as "\n".join(lines) + "\n".     *)
(***************************************************************************)
EXTENDS Integers, Sequences, FiniteSets, TLC

\* ------------------------------------------------------------------------
\* Python's str primitives, as the source uses them
\* ------------------------------------------------------------------------

\* printable ASCII (less backslash and backquote) in code-point order: ord(c) is the
\* position in it, which orders two characters as their code points do
ASCII == <<" ", "!", "\"", "#", "$", "%", "&", "'", "(", ")", "*", "+", ",", "-", ".", "/", "0", "1", "2", "3", "4", "5", "6", "7", "8", "9", ":", ";", "<", "=", ">", "?", "@", "A", "B", "C", "D", "E", "F", "G", "H", "I", "J", "K", "L", "M", "N", "O", "P", "Q", "R", "S", "T", "U", "V", "W", "X", "Y", "Z", "[", "]", "^", "_", "a", "b", "c", "d", "e", "f", "g", "h", "i", "j", "k", "l", "m", "n", "o", "p", "q", "r", "s", "t", "u", "v", "w", "x", "y", "z", "{", "|", "}", "~">>

ord(c) == CHOOSE i \in 1..Len(ASCII) : ASCII[i] = c

UPPERCASE == <<"A", "B", "C", "D", "E", "F", "G", "H", "I", "J", "K", "L", "M", "N", "O", "P", "Q", "R", "S", "T", "U", "V", "W", "X", "Y", "Z">>

LOWERCASE == <<"a", "b", "c", "d", "e", "f", "g", "h", "i", "j", "k", "l", "m", "n", "o", "p", "q", "r", "s", "t", "u", "v", "w", "x", "y", "z">>

lowerMap == [c \in {UPPERCASE[i] : i \in 1..26} |->
               LOWERCASE[CHOOSE i \in 1..26 : UPPERCASE[i] = c]]

\* str.lower()
lower(s) == [i \in 1..Len(s) |-> IF s[i] \in DOMAIN lowerMap THEN lowerMap[s[i]] ELSE s[i]]

\* the characters str.strip() removes
WHITESPACE == {" ", "\t", "\n"}

RECURSIVE lstripc(_, _)
lstripc(s, cs) == IF s # <<>> /\ Head(s) \in cs THEN lstripc(Tail(s), cs) ELSE s

RECURSIVE rstripc(_, _)
rstripc(s, cs) ==
  IF s # <<>> /\ s[Len(s)] \in cs THEN rstripc(SubSeq(s, 1, Len(s) - 1), cs) ELSE s

\* s.strip(chars)
stripc(s, cs) == rstripc(lstripc(s, cs), cs)

\* s.strip()
strip(s) == stripc(s, WHITESPACE)

\* s.startswith(p)
startswith(s, p) == Len(s) >= Len(p) /\ SubSeq(s, 1, Len(p)) = p

\* s.endswith(p)
endswith(s, p) == Len(s) >= Len(p) /\ SubSeq(s, Len(s) - Len(p) + 1, Len(s)) = p

\* s.find(sub, start) with Python's 0-based positions: the least position
\* >= start where sub begins, or -1
find(s, sub, start) ==
  LET at == {p \in start..(Len(s) - Len(sub)) : SubSeq(s, p + 1, p + Len(sub)) = sub}
  IN  IF at = {} THEN -1 ELSE CHOOSE p \in at : \A q \in at : p <= q

\* sub in s
contains(s, sub) == find(s, sub, 0) # -1

\* s[a:] and s[a:b] for 0 <= a, with Python's 0-based positions
sliceFrom(s, a) == SubSeq(s, a + 1, Len(s))

slice(s, a, b) == SubSeq(s, a + 1, b)

\* s.split(":", 1) where ":" is in s: the text before and after the first ":"
splitColon(s) ==
  LET i == find(s, <<":">>, 0) IN <<slice(s, 0, i), sliceFrom(s, i + 1)>>

\* s.split(",")
RECURSIVE splitComma(_)
splitComma(s) ==
  LET i == find(s, <<",">>, 0)
  IN  IF i = -1 THEN <<s>> ELSE <<slice(s, 0, i)>> \o splitComma(sliceFrom(s, i + 1))

\* text.splitlines(), for texts whose only line boundary is "\n"
RECURSIVE splitlines(_)
splitlines(t) ==
  IF t = <<>> THEN <<>>
  ELSE LET i == find(t, <<"\n">>, 0)
       IN  IF i = -1 THEN <<t>> ELSE <<slice(t, 0, i)>> \o splitlines(sliceFrom(t, i + 1))

\* sep.join(parts)
RECURSIVE join(_, _)
join(sep, parts) ==
  IF parts = <<>> THEN <<>>
  ELSE IF Len(parts) = 1 THEN parts[1]
  ELSE parts[1] \o sep \o join(sep, Tail(parts))

\* a < b for two str, as sorted() compares them
RECURSIVE strLess(_, _)
strLess(a, b) ==
  IF b = <<>> THEN FALSE
  ELSE IF a = <<>> THEN TRUE
  ELSE IF Head(a) = Head(b) THEN strLess(Tail(a), Tail(b))
  ELSE ord(Head(a)) < ord(Head(b))

\* sorted(S) for a set of str
RECURSIVE sorted(_)
sorted(S) ==
  IF S = {} THEN <<>>
  ELSE LET m == CHOOSE x \in S : \A y \in S \ {x} : strLess(x, y)
       IN  <<m>> \o sorted(S \ {m})

\* an optional value: dict.get(k) is None or Some(v)
None == <<>>

Some(v) == <<v>>

\* d.get(k, default) and d.get(k) or default
getOr(o, default) == IF o = None THEN default ELSE o[1]

\* a file of the repository: Absent, or File(content)
Absent == <<>>

File(content) == <<content>>

\* read_text(path).splitlines() of a file held as its lines
readLines(file) == file[1]

\* write_text(path, "\n".join(lines) + "\n"): the file afterwards
writeLines(lines) == File(lines)

\* ------------------------------------------------------------------------
\* Paths
\* ------------------------------------------------------------------------

\* the 0-based position of the last occurrence of the character c, or -1
RECURSIVE rfind(_, _)
rfind(s, c) ==
  IF s = <<>> THEN -1 ELSE IF s[Len(s)] = c THEN Len(s) - 1
  ELSE rfind(SubSeq(s, 1, Len(s) - 1), c)

\* os.path.basename(path)
basename(path) == sliceFrom(path, rfind(path, "/") + 1)

\* s[:-3]
dropLast3(s) == SubSeq(s, 1, Len(s) - 3)

\* os.path.splitext(name)[0]: the name up to its last dot, the whole name
\* when it has no dot after its leading dots
splitextRoot(name) ==
  LET dot == rfind(name, ".")
  IN  IF dot = -1 \/ lstripc(slice(name, 0, dot), {"."}) = <<>> THEN name
      ELSE slice(name, 0, dot)

\* the directory of the task files, with its separator
TASKS_DIR == <<"s", "p", "e", "c", "/", "t", "a", "s", "k", "s", "/">>

\* os.path.join("spec", "tasks", name) and f"spec/tasks/{name}"
taskPath(name) == TASKS_DIR \o name

\* ------------------------------------------------------------------------
\* The task files of the model
\* ------------------------------------------------------------------------

\* the names in spec/tasks: two task files and a file that is no task file
n_T1 == <<"T", "1", ".", "m", "d">>

n_T2 == <<"T", "2", ".", "m", "d">>

n_notes == <<"n", "o", "t", "e", "s", ".", "t", "x", "t">>

DirNames == {n_T1, n_T2, n_notes}

\* task files: a complete header, another status and more fields, no header,
\* a header that is not closed, quoted values, no id and an empty status, an
\* empty id
t_plain == <<"-", "-", "-", "\n", "i", "d", ":", " ", "A", "\n", "s", "t", "a", "t", "u", "s", ":", " ", "t", "o", "d", "o", "\n", "-", "-", "-", "\n", "b", "o", "d", "y", "\n">>

t_doing == <<"-", "-", "-", "\n", "i", "d", ":", " ", "A", "\n", "t", "i", "t", "l", "e", ":", " ", "F", "i", "x", " ", "i", "t", "\n", "s", "t", "a", "t", "u", "s", ":", " ", "D", "O", "I", "N", "G", "\n", "o", "w", "n", "e", "r", ":", " ", "m", "e", "\n", "l", "a", "b", "e", "l", "s", ":", " ", "[", "d", "b", ",", " ", "a", "p", "i", "]", "\n", "-", "-", "-", "\n">>

t_nohdr == <<"#", " ", "N", "o", "t", "e", "s", "\n", "i", "d", ":", " ", "A", "\n">>

t_open == <<"-", "-", "-", "\n", "i", "d", ":", " ", "B", "\n", "s", "t", "a", "t", "u", "s", ":", " ", "d", "o", "n", "e", "\n">>

t_quoted == <<"-", "-", "-", "\n", "i", "d", ":", " ", "'", "B", "'", "\n", "s", "t", "a", "t", "u", "s", ":", " ", "\"", "d", "o", "n", "e", "\"", "\n", "-", "-", "-", "\n">>

t_noid == <<"-", "-", "-", "\n", "t", "i", "t", "l", "e", ":", " ", "x", "\n", "s", "t", "a", "t", "u", "s", ":", "\n", "-", "-", "-", "\n">>

t_emptyid == <<"-", "-", "-", "\n", "i", "d", ":", "\n", "s", "t", "a", "t", "u", "s", ":", " ", "t", "o", "d", "o", "\n", "-", "-", "-", "\n">>

TaskTexts == {t_plain, t_doing, t_nohdr, t_open, t_quoted, t_noid, t_emptyid}

\* ------------------------------------------------------------------------
\* Header parsers of the task files
\* ------------------------------------------------------------------------

QUOTE2 == {"\""}

QUOTE1 == {"'"}

\* the keys the parsers look for
k_id == <<"i", "d">>

k_title == <<"t", "i", "t", "l", "e">>

k_status == <<"s", "t", "a", "t", "u", "s">>

k_owner == <<"o", "w", "n", "e", "r">>

k_file == <<"f", "i", "l", "e">>

k_labels == <<"l", "a", "b", "e", "l", "s">>

k_deps == <<"d", "e", "p", "s">>

\* "[a, b]" as parse_task_file, parse_index_tasks (and load_settings) read it:
\* [p.strip().strip('"').strip("'") for p in inner.split(",") if p.strip()]
RECURSIVE listItems(_)
listItems(parts) ==
  IF parts = <<>> THEN <<>>
  ELSE (IF strip(Head(parts)) # <<>>
        THEN <<stripc(stripc(strip(Head(parts)), QUOTE2), QUOTE1)>>
        ELSE <<>>) \o listItems(Tail(parts))

\* the value of a labels: or deps: line; None when the line sets nothing
listValue(v) ==
  IF startswith(v, <<"[">>) /\ endswith(v, <<"]">>)
  THEN Some(listItems(splitComma(strip(slice(v, 1, Len(v) - 1)))))
  ELSE IF v # <<>> THEN Some(<<stripc(stripc(v, QUOTE2), QUOTE1)>>)
  ELSE None

\* re.findall(r"[A-Za-z0-9\-\_]+", v): the maximal runs of word characters
WORDCHARS ==
  {UPPERCASE[i] : i \in 1..26} \cup {LOWERCASE[i] : i \in 1..26}
    \cup {"0", "1", "2", "3", "4", "5", "6", "7", "8", "9", "-", "_"}

RECURSIVE findallWords(_, _)
findallWords(v, cur) ==
  IF v = <<>> THEN (IF cur = <<>> THEN <<>> ELSE <<cur>>)
  ELSE IF Head(v) \in WORDCHARS THEN findallWords(Tail(v), Append(cur, Head(v)))
  ELSE (IF cur = <<>> THEN <<>> ELSE <<cur>>) \o findallWords(Tail(v), <<>>)

\* the dictionary a header parser builds, before any key is set
EmptyFields ==
  [id |-> None, title |-> None, status |-> None, owner |-> None,
   labels |-> None, deps |-> None]

\* parse_frontmatter_min's loop body: one header line applied to data
fmLine(data, line) ==
  IF ~contains(line, <<":">>) THEN data
  ELSE LET kv == splitColon(line)
           k  == strip(kv[1])
           v  == stripc(stripc(strip(kv[2]), QUOTE2), QUOTE1)
       IN  IF k = k_labels THEN [data EXCEPT !.labels = Some(findallWords(v, <<>>))]
           ELSE IF k = k_deps THEN [data EXCEPT !.deps = Some(findallWords(v, <<>>))]
           ELSE IF k = k_id THEN [data EXCEPT !.id = Some(v)]
           ELSE IF k = k_title THEN [data EXCEPT !.title = Some(v)]
           ELSE IF k = k_status THEN [data EXCEPT !.status = Some(v)]
           ELSE IF k = k_owner THEN [data EXCEPT !.owner = Some(v)]
           ELSE data

RECURSIVE fmLines(_, _)
fmLines(data, lines) ==
  IF lines = <<>> THEN data ELSE fmLines(fmLine(data, Head(lines)), Tail(lines))

\* re.match(r"^---\n(.*?)\n---", md_text, re.DOTALL): the 0-based position
\* where the closing "\n---" begins, or -1 when the text does not match
fmClose(md_text) ==
  IF startswith(md_text, <<"-", "-", "-", "\n">>) THEN find(md_text, <<"\n", "-", "-", "-">>, 4) ELSE -1

\* parse_frontmatter_min(md_text): {} when the header is not recognised
fmData(md_text) ==
  IF fmClose(md_text) = -1 THEN EmptyFields
  ELSE fmLines(EmptyFields, splitlines(slice(md_text, 4, fmClose(md_text))))

\* fmData of every task text of the model, computed once
fmDataOf == [md_text \in TaskTexts |-> fmData(md_text)]

parse_frontmatter_min(md_text) == fmDataOf[md_text]

\* parse_task_file raises ValueError on a text with no "---" at its start
parse_task_file_raises(text) == ~startswith(text, <<"-", "-", "-">>)

\* parse_task_file's loop body: one header line applied to out
ptfLine(out, line) ==
  LET s == strip(line)
  IN  IF s = <<>> \/ startswith(s, <<"#">>) \/ ~contains(s, <<":">>) THEN out
      ELSE LET kv == splitColon(s)
               k  == strip(kv[1])
               v  == strip(kv[2])
           IN  IF k = k_id THEN [out EXCEPT !.id = Some(stripc(v, QUOTE2))]
               ELSE IF k = k_title THEN [out EXCEPT !.title = Some(stripc(v, QUOTE2))]
               ELSE IF k = k_status THEN [out EXCEPT !.status = Some(stripc(v, QUOTE2))]
               ELSE IF k = k_owner THEN [out EXCEPT !.owner = Some(stripc(v, QUOTE2))]
               ELSE IF k = k_labels /\ listValue(v) # None
                    THEN [out EXCEPT !.labels = listValue(v)]
               ELSE IF k = k_deps /\ listValue(v) # None
                    THEN [out EXCEPT !.deps = listValue(v)]
               ELSE out

RECURSIVE ptfLines(_, _)
ptfLines(out, lines) ==
  IF lines = <<>> THEN out ELSE ptfLines(ptfLine(out, Head(lines)), Tail(lines))

\* the header text parse_task_file reads: text[4:end], or text[4:] when no
\* closing "\n---" is found from position 3 on
ptfHeader(text) ==
  LET end == find(text, <<"\n", "-", "-", "-">>, 3)
  IN  IF end # -1 THEN slice(text, 4, end) ELSE sliceFrom(text, 4)

\* parse_task_file's out after its loop over the header lines
ptfOut(text) ==
  ptfLines([EmptyFields EXCEPT !.labels = Some(<<>>), !.deps = Some(<<>>),
                               !.owner = Some(<<>>)],
           splitlines(ptfHeader(text)))

\* ptfOut of every task text of the model, computed once
ptfOutOf == [text \in TaskTexts |-> ptfOut(text)]

\* parse_task_file(path), for a text it does not raise on: the dictionary
\* {id, title, status, labels, deps, owner, file} with its defaults set
parse_task_file(path, text) ==
  LET out == ptfOutOf[text]
  IN  [id     |-> getOr(out.id, dropLast3(basename(path))),
       title  |-> getOr(out.title, <<>>),
       status |-> getOr(out.status, <<"t", "o", "d", "o">>),
       owner  |-> out.owner[1],
       labels |-> out.labels[1],
       deps   |-> out.deps[1],
       file   |-> path]

\* ------------------------------------------------------------------------
\* The ledger spec/index.yml
\* ------------------------------------------------------------------------

\* INDEX_YML, the ledger that init writes, as its lines
INDEX_YML ==
  <<<<"#", " ", "T", "a", "s", "k", " ", "l", "e", "d", "g", "e", "r", " ", "f", "o", "r", " ", "a", "g", "e", "n", "t", " ", "+", " ", "h", "u", "m", "a", "n">>,
              <<"#", " ", "'", "d", "e", "s", "i", "g", "n", "s", "'", " ", "l", "i", "s", "t", "s", " ", "t", "h", "e", " ", "d", "e", "s", "i", "g", "n", " ", "d", "o", "c", "s", " ", "a", "g", "e", "n", "t", "s", " ", "s", "h", "o", "u", "l", "d", " ", "r", "e", "a", "d", ".">>,
              <<"#", " ", "'", "t", "a", "s", "k", "s", "'", " ", "i", "s", " ", "a", " ", "f", "l", "a", "t", " ", "l", "i", "s", "t", ";", " ", "a", "g", "e", "n", "t", "s", " ", "w", "i", "l", "l", " ", "a", "d", "d", " ", "e", "n", "t", "r", "i", "e", "s", " ", "a", "n", "d", " ", "u", "p", "d", "a", "t", "e", " ", "s", "t", "a", "t", "u", "s", "e", "s", ".">>,
              <<"d", "e", "s", "i", "g", "n", "s", ":", " ", "[", "]">>,
              <<"t", "a", "s", "k", "s", ":", " ", "[", "]">>>>

s_designs == <<"d", "e", "s", "i", "g", "n", "s", ":">>

s_tasks == <<"t", "a", "s", "k", "s", ":">>

s_item == <<"-", " ">>

\* load_designs_from_index's loop with its break left out: the loop reads on
\* past the first line that ends the designs
RECURSIVE loadDesignsLoopNoBreak(_, _)
loadDesignsLoopNoBreak(st, lines) ==
  IF lines = <<>> THEN st.designs
  ELSE IF startswith(strip(Head(lines)), s_designs)
  THEN loadDesignsLoopNoBreak([st EXCEPT !.in_designs = TRUE], Tail(lines))
  ELSE IF st.in_designs /\ startswith(strip(Head(lines)), s_item)
  THEN loadDesignsLoopNoBreak(
         [st EXCEPT !.designs = Append(@, strip(sliceFrom(strip(Head(lines)), 2)))],
         Tail(lines))
  ELSE loadDesignsLoopNoBreak(st, Tail(lines))

\* load_designs_from_index's loop: st.done is set by its break
RECURSIVE loadDesignsLoop(_, _)
loadDesignsLoop(st, lines) ==
  IF lines = <<>> \/ st.done THEN st.designs
  ELSE LET s == strip(Head(lines))
       IN  IF startswith(s, s_designs)
           THEN loadDesignsLoop([st EXCEPT !.in_designs = TRUE], Tail(lines))
           ELSE IF ~st.in_designs THEN loadDesignsLoop(st, Tail(lines))
           ELSE IF startswith(s, s_item)
           THEN loadDesignsLoop(
                  [st EXCEPT !.designs = Append(@, strip(sliceFrom(s, 2)))], Tail(lines))
           ELSE IF s = <<>> \/ startswith(s, <<"#">>)
           THEN loadDesignsLoop(st, Tail(lines))
           ELSE loadDesignsLoop([st EXCEPT !.done = TRUE], Tail(lines))

\* load_designs_from_index(), index being the file spec/index.yml
load_designs_from_index(index) ==
  IF index = Absent THEN <<>>
  ELSE loadDesignsLoop([designs |-> <<>>, in_designs |-> FALSE, done |-> FALSE],
                       readLines(index))

\* [f"- {d}" for d in designs]
designItems(designs) == [i \in 1..Len(designs) |-> s_item \o designs[i]]

\* the lines save_designs_to_index skips after a designs: line
isDesignTail(line) ==
  LET s == strip(line)
  IN  startswith(s, s_item) \/ s = <<>> \/ startswith(s, <<"#">>)

RECURSIVE skipDesignTail(_)
skipDesignTail(lines) ==
  IF lines # <<>> /\ isDesignTail(Head(lines)) THEN skipDesignTail(Tail(lines)) ELSE lines

\* save_designs_to_index's while loop: the lines written and whether a
\* designs: line was met
RECURSIVE saveDesignsLoop(_, _)
saveDesignsLoop(lines, designs) ==
  IF lines = <<>> THEN [out |-> <<>>, wrote |-> FALSE]
  ELSE IF startswith(strip(Head(lines)), s_designs)
       THEN [out   |-> <<s_designs>> \o designItems(designs)
                         \o saveDesignsLoop(skipDesignTail(Tail(lines)), designs).out,
             wrote |-> TRUE]
       ELSE LET rest == saveDesignsLoop(Tail(lines), designs)
            IN  [out |-> <<Head(lines)>> \o rest.out, wrote |-> rest.wrote]

\* the insertion point of save_designs_to_index: after the initial comments
RECURSIVE insertAt(_)
insertAt(out) ==
  IF out # <<>> /\ startswith(strip(Head(out)), <<"#">>) THEN 1 + insertAt(Tail(out)) ELSE 0

\* save_designs_to_index(designs): the file spec/index.yml afterwards
save_designs_to_index(index, designs) ==
  LET existing == IF index = Absent THEN INDEX_YML ELSE readLines(index)
      r == saveDesignsLoop(existing, designs)
      at == insertAt(r.out)
  IN  writeLines(IF r.wrote THEN r.out
                 ELSE SubSeq(r.out, 1, at) \o <<s_designs>> \o designItems(designs)
                        \o SubSeq(r.out, at + 1, Len(r.out)))

\* the dictionary parse_index_tasks builds for one entry; other: a key the
\* program never reads was set on the entry's first line
EmptyEntry ==
  [id |-> None, title |-> None, status |-> None, owner |-> None, file |-> None,
   labels |-> None, deps |-> None, other |-> FALSE]

\* cur[k] = v for a key of a ledger entry
setEntry(cur, k, v) ==
  IF k = k_id THEN [cur EXCEPT !.id = Some(v)]
  ELSE IF k = k_title THEN [cur EXCEPT !.title = Some(v)]
  ELSE IF k = k_status THEN [cur EXCEPT !.status = Some(v)]
  ELSE IF k = k_owner THEN [cur EXCEPT !.owner = Some(v)]
  ELSE IF k = k_file THEN [cur EXCEPT !.file = Some(v)]
  ELSE IF k = k_labels THEN [cur EXCEPT !.labels = Some(v)]
  ELSE IF k = k_deps THEN [cur EXCEPT !.deps = Some(v)]
  ELSE [cur EXCEPT !.other = TRUE]

\* the first line of an entry, "- k: v": any key is taken
entryFirstLine(s) ==
  IF contains(sliceFrom(s, 2), <<":">>)
  THEN LET kv == splitColon(sliceFrom(s, 2))
       IN  setEntry(EmptyEntry, strip(kv[1]), stripc(strip(kv[2]), QUOTE2))
  ELSE EmptyEntry

\* a further line of an entry, "k: v": the known keys only
entryNextLine(cur, s) ==
  LET kv == splitColon(s)
      k  == strip(kv[1])
      v  == strip(kv[2])
  IN  IF k \in {k_id, k_title, k_status, k_owner, k_file}
      THEN setEntry(cur, k, stripc(v, QUOTE2))
      ELSE IF k \in {k_labels, k_deps} /\ listValue(v) # None
      THEN setEntry(cur, k, listValue(v)[1])
      ELSE cur

\* parse_index_tasks's loop
RECURSIVE parseIndexLoop(_, _)
parseIndexLoop(st, lines) ==
  IF lines = <<>>
  THEN (IF st.cur # EmptyEntry THEN Append(st.tasks, st.cur) ELSE st.tasks)
  ELSE LET s == strip(Head(lines))
       IN  IF startswith(s, s_tasks)
           THEN parseIndexLoop([st EXCEPT !.in_tasks = TRUE, !.cur = EmptyEntry], Tail(lines))
           ELSE IF ~st.in_tasks THEN parseIndexLoop(st, Tail(lines))
           ELSE IF startswith(s, s_item)
           THEN parseIndexLoop(
                  [st EXCEPT !.tasks = IF st.cur # EmptyEntry THEN Append(@, st.cur) ELSE @,
                             !.cur = entryFirstLine(s)], Tail(lines))
           ELSE IF s = <<>> \/ startswith(s, <<"#">>) THEN parseIndexLoop(st, Tail(lines))
           ELSE IF contains(s, <<":">>)
           THEN parseIndexLoop([st EXCEPT !.cur = entryNextLine(@, s)], Tail(lines))
           ELSE parseIndexLoop(st, Tail(lines))

\* parse_index_tasks(), index being the file spec/index.yml
parse_index_tasks(index) ==
  IF index = Absent THEN <<>>
  ELSE parseIndexLoop([tasks |-> <<>>, cur |-> EmptyEntry, in_tasks |-> FALSE],
                      readLines(index))

\* ------------------------------------------------------------------------
\* Reindex: the ledger rebuilt from the task files
\* ------------------------------------------------------------------------

\* the names of a directory listing that end in ".md", sorted
mdNames(names) == sorted({n \in names : endswith(n, <<".", "m", "d">>)})

\* f"{xs}" for a list of str without quotes in them: ['a', 'b']
RECURSIVE reprItems(_)
reprItems(xs) ==
  IF xs = <<>> THEN <<>> ELSE <<<<"'">> \o Head(xs) \o <<"'">>>> \o reprItems(Tail(xs))

listRepr(xs) == <<"[">> \o join(<<",", " ">>, reprItems(xs)) \o <<"]">>

\* the entry of cmd_reindex with no default for the status: a header that
\* declares none gives an empty status
reindexEntryNoDefault(name, text) ==
  LET fm == parse_frontmatter_min(text)
  IN  [id     |-> IF getOr(fm.id, <<>>) # <<>> THEN fm.id[1] ELSE splitextRoot(name),
       title  |-> getOr(fm.title, <<>>),
       labels |-> getOr(fm.labels, <<>>),
       status |-> getOr(fm.status, <<>>),
       deps   |-> getOr(fm.deps, <<>>),
       file   |-> taskPath(name),
       owner  |-> IF getOr(fm.owner, <<>>) # <<>> THEN fm.owner ELSE None]

\* the entry cmd_reindex derives from one task file
reindexEntry(name, text) ==
  LET fm == parse_frontmatter_min(text)
  IN  [id     |-> IF getOr(fm.id, <<>>) # <<>> THEN fm.id[1] ELSE splitextRoot(name),
       title  |-> getOr(fm.title, <<>>),
       labels |-> getOr(fm.labels, <<>>),
       status |-> getOr(fm.status, <<"t", "o", "d", "o">>),
       deps   |-> getOr(fm.deps, <<>>),
       file   |-> taskPath(name),
       owner  |-> IF getOr(fm.owner, <<>>) # <<>> THEN fm.owner ELSE None]

\* the entries of cmd_reindex, one per task file, in the order of names
reindexEntries(names, dir) == [i \in 1..Len(names) |-> reindexEntry(names[i], dir[names[i]][1])]

\* the lines cmd_reindex writes for one entry
entryLines(e) ==
  <<<<"-", " ", "i", "d", ":", " ">> \o e.id,
    <<" ", " ", "t", "i", "t", "l", "e", ":", " ">> \o e.title,
    <<" ", " ", "l", "a", "b", "e", "l", "s", ":", " ">> \o listRepr(e.labels),
    <<" ", " ", "s", "t", "a", "t", "u", "s", ":", " ">> \o e.status,
    <<" ", " ", "d", "e", "p", "s", ":", " ">> \o listRepr(e.deps),
    <<" ", " ", "f", "i", "l", "e", ":", " ">> \o e.file>>
  \o (IF e.owner # None THEN <<<<" ", " ", "o", "w", "n", "e", "r", ":", " ">> \o e.owner[1]>> ELSE <<>>)

RECURSIVE entriesLines(_)
entriesLines(entries) ==
  IF entries = <<>> THEN <<>> ELSE entryLines(Head(entries)) \o entriesLines(Tail(entries))

\* the designs lines of a cmd_reindex that writes a fresh ledger and drops
\* the designs it loaded
reindexDesignLinesEmpty(designs) == <<<<"d", "e", "s", "i", "g", "n", "s", ":", " ", "[", "]">>>>

\* the lines cmd_reindex writes for the designs it loaded
reindexDesignLines(designs) ==
  IF designs # <<>> THEN <<s_designs>> \o designItems(designs) ELSE <<<<"d", "e", "s", "i", "g", "n", "s", ":", " ", "[", "]">>>>

\* the lines cmd_reindex writes for its entries
reindexTaskLines(entries) ==
  IF entries # <<>> THEN <<s_tasks>> \o entriesLines(entries) ELSE <<<<"t", "a", "s", "k", "s", ":", " ", "[", "]">>>>

\* cmd_reindex: the file spec/index.yml afterwards; dir maps the names of
\* spec/tasks to their files
reindexFile(index, dir) ==
  writeLines(<<<<"#", " ", "T", "a", "s", "k", " ", "l", "e", "d", "g", "e", "r", " ", "f", "o", "r", " ", "a", "g", "e", "n", "t", " ", "+", " ", "h", "u", "m", "a", "n">>>>
             \o reindexDesignLines(load_designs_from_index(index))
             \o reindexTaskLines(
                  reindexEntries(mdNames({n \in DOMAIN dir : dir[n] # Absent}), dir)))

\* ------------------------------------------------------------------------
\* Drift: the task files against the ledger
\* ------------------------------------------------------------------------

\* the file_tasks of cmd_tasks: parse_task_file of every *.md of spec/tasks in
\* sorted order, less the files it raises on (they are warned about and skipped)
RECURSIVE fileTasksOf(_, _)
fileTasksOf(names, dir) ==
  IF names = <<>> THEN <<>>
  ELSE (IF parse_task_file_raises(dir[Head(names)][1]) THEN <<>>
        ELSE <<parse_task_file(taskPath(Head(names)), dir[Head(names)][1])>>)
       \o fileTasksOf(Tail(names), dir)

fileTasks(dir) == fileTasksOf(mdNames({n \in DOMAIN dir : dir[n] # Absent}), dir)

\* the keys of {t["id"]: t for t in ts}, in the order a dict keeps them
RECURSIVE dictKeys(_, _)
dictKeys(ts, seen) ==
  IF ts = <<>> THEN <<>>
  ELSE IF Head(ts).id \in seen THEN dictKeys(Tail(ts), seen)
  ELSE <<Head(ts).id>> \o dictKeys(Tail(ts), seen \cup {Head(ts).id})

\* the value of {t["id"]: t for t in ts} at a key: the last t with that id
dictAt(ts, tid) == ts[CHOOSE i \in 1..Len(ts) : ts[i].id = tid /\ \A j \in (i + 1)..Len(ts) : ts[j].id # tid]

\* an entry of quick_diff_files_vs_index's result
Issue(type, tid, file, index_file, fs, is) ==
  [type |-> type, id |-> tid, file |-> file, index_file |-> index_file,
   file_status |-> fs, index_status |-> is]

\* (t.get("status") or "").strip().lower()
normStatus(st) == lower(strip(st))

\* the first loop of quick_diff_files_vs_index: the ids of the files that the
\* ledger does not have
RECURSIVE missingInIndex(_, _, _)
missingInIndex(fkeys, files, ikeys) ==
  IF fkeys = <<>> THEN <<>>
  ELSE (IF Head(fkeys) \notin ikeys
        THEN <<Issue("missing_in_index", Head(fkeys), Some(dictAt(files, Head(fkeys)).file),
                     None, None, None)>>
        ELSE <<>>) \o missingInIndex(Tail(fkeys), files, ikeys)

\* ti.get("file") or f"spec/tasks/{tid}.md"
indexFile(ti, tid) ==
  IF getOr(ti.file, <<>>) # <<>> THEN ti.file[1] ELSE TASKS_DIR \o tid \o <<".", "m", "d">>

RECURSIVE missingFile(_, _, _)
missingFile(ikeys, index, paths) ==
  IF ikeys = <<>> THEN <<>>
  ELSE LET tid == Head(ikeys)
           f   == indexFile(dictAt(index, tid), tid)
       IN  (IF f \notin paths
            THEN <<Issue("missing_file", tid, None, Some(f), None, None)>> ELSE <<>>)
           \o missingFile(Tail(ikeys), index, paths)

RECURSIVE statusMismatch(_, _, _)
statusMismatch(fkeys, files, index) ==
  IF fkeys = <<>> THEN <<>>
  ELSE LET tid == Head(fkeys)
           tf  == dictAt(files, tid)
       IN  (IF \E i \in 1..Len(index) : index[i].id = tid
            THEN LET ti == dictAt(index, tid)
                     fs == normStatus(tf.status)
                     is == normStatus(getOr(ti.status, <<>>))
                 IN  IF fs # <<>> /\ is # <<>> /\ fs # is
                     THEN <<Issue("status_mismatch", tid, Some(tf.file), ti.file,
                                  Some(fs), Some(is))>>
                     ELSE <<>>
            ELSE <<>>) \o statusMismatch(Tail(fkeys), files, index)

\* quick_diff_files_vs_index(files, index) raises KeyError when an entry of
\* index has no "id"
quick_diff_raises(index) == \E i \in 1..Len(index) : index[i].id = None

\* quick_diff_files_vs_index(files, index), for an index it does not raise
\* on; paths: the paths for which os.path.exists holds
quick_diff_files_vs_index(files, index, paths) ==
  LET ix    == [i \in 1..Len(index) |-> [index[i] EXCEPT !.id = index[i].id[1]]]
      fkeys == dictKeys(files, {})
      ikeys == dictKeys(ix, {})
  IN  missingInIndex(fkeys, files, {ikeys[i] : i \in 1..Len(ikeys)})
      \o missingFile(ikeys, ix, paths)
      \o statusMismatch(fkeys, files, ix)

\* ------------------------------------------------------------------------
\* The other files of the scaffold
\* ------------------------------------------------------------------------

\* SETTINGS_YML, the settings file that init writes, as its lines
SETTINGS_YML ==
  <<
    <<"#", " ", "M", "i", "n", "i", "m", "a", "l", " ", "e", "x", "e", "c", "u", "t", "i", "o", "n", " ", "s", "e", "t", "t", "i", "n", "g", "s", " ", "f", "o", "r", " ", "a", "g", "e", "n", "t", "s">>,
    <<"s", "e", "t", "t", "i", "n", "g", "s", ":">>,
    <<" ", " ", "a", "u", "t", "o", "_", "e", "x", "e", "c", "u", "t", "e", "_", "a", "f", "t", "e", "r", "_", "p", "l", "a", "n", "n", "i", "n", "g", ":", " ", "f", "a", "l", "s", "e", " ", " ", " ", " ", " ", " ", " ", " ", " ", " ", " ", " ", " ", " ", " ", " ", " ", " ", " ", " ", " ", " ", " ", " ", "#", " ", "i", "f", " ", "t", "r", "u", "e", ",", " ", "s", "t", "a", "r", "t", " ", "i", "m", "p", "l", "e", "m", "e", "n", "t", "a", "t", "i", "o", "n", " ", "i", "m", "m", "e", "d", "i", "a", "t", "e", "l", "y", " ", "a", "f", "t", "e", "r", " ", "p", "l", "a", "n", "n", "i", "n", "g">>,
    <<" ", " ", "n", "e", "x", "t", "_", "t", "a", "s", "k", "_", "l", "o", "o", "p", ":", " ", "m", "a", "n", "u", "a", "l", " ", " ", " ", " ", " ", " ", " ", " ", " ", " ", " ", " ", " ", " ", " ", " ", " ", " ", " ", " ", " ", " ", " ", " ", " ", " ", " ", " ", " ", " ", " ", " ", " ", " ", " ", " ", "#", " ", "\"", "m", "a", "n", "u", "a", "l", "\"", " ", "o", "r", " ", "\"", "a", "u", "t", "o", "\"">>,
    <<" ", " ", "r", "e", "q", "u", "i", "r", "e", "_", "o", "w", "n", "e", "r", "_", "f", "o", "r", "_", "d", "o", "i", "n", "g", ":", " ", "f", "a", "l", "s", "e", " ", " ", " ", " ", " ", " ", " ", " ", " ", " ", " ", " ", " ", " ", " ", " ", " ", " ", " ", " ", " ", " ", " ", " ", " ", " ", " ", " ", "#", " ", "i", "f", " ", "t", "r", "u", "e", ",", " ", "m", "u", "s", "t", " ", "s", "e", "t", " ", "'", "o", "w", "n", "e", "r", "'", " ", "b", "e", "f", "o", "r", "e", " ", "s", "w", "i", "t", "c", "h", "i", "n", "g", " ", "a", " ", "t", "a", "s", "k", " ", "t", "o", " ", "'", "d", "o", "i", "n", "g", "'">>,
    <<" ", " ", "f", "e", "a", "t", "u", "r", "e", "_", "b", "r", "a", "n", "c", "h", "_", "n", "a", "m", "i", "n", "g", ":", " ", "\"", "f", "e", "a", "t", "/", "{", "f", "e", "a", "t", "u", "r", "e", "_", "s", "l", "u", "g", "}", "\"", " ", " ", " ", " ", " ", " ", " ", " ", " ", " ", " ", " ", " ", " ", "#", " ", "p", "a", "r", "e", "n", "t", " ", "b", "r", "a", "n", "c", "h", " ", "p", "e", "r", " ", "d", "e", "s", "i", "g", "n", "/", "f", "e", "a", "t", "u", "r", "e">>,
    <<" ", " ", "b", "r", "a", "n", "c", "h", "_", "n", "a", "m", "i", "n", "g", ":", " ", "\"", "f", "e", "a", "t", "/", "{", "f", "e", "a", "t", "u", "r", "e", "_", "s", "l", "u", "g", "}", "/", "{", "i", "d", "}", "-", "{", "s", "l", "u", "g", "}", "\"", " ", " ", " ", " ", " ", " ", " ", " ", " ", " ", "#", " ", "h", "i", "n", "t", "/", "p", "a", "t", "t", "e", "r", "n", " ", "f", "o", "r", " ", "b", "r", "a", "n", "c", "h", " ", "n", "a", "m", "e", "s">>,
    <<" ", " ", "f", "e", "a", "t", "u", "r", "e", "_", "b", "a", "s", "e", "_", "c", "a", "n", "d", "i", "d", "a", "t", "e", "s", ":", " ", "[", "\"", "m", "a", "i", "n", "\"", ",", " ", "\"", "m", "a", "s", "t", "e", "r", "\"", ",", " ", "\"", "d", "e", "v", "e", "l", "o", "p", "\"", "]", " ", " ", " ", " ", "#", " ", "b", "a", "s", "e", " ", "f", "o", "r", " ", "f", "e", "a", "t", "u", "r", "e", " ", "b", "r", "a", "n", "c", "h", " ", "(", "f", "i", "r", "s", "t", " ", "t", "h", "a", "t", " ", "e", "x", "i", "s", "t", "s", ")">>,
    <<" ", " ", "e", "n", "f", "o", "r", "c", "e", "_", "b", "r", "a", "n", "c", "h", "i", "n", "g", ":", " ", "t", "r", "u", "e", " ", " ", " ", " ", " ", " ", " ", " ", " ", " ", " ", " ", " ", " ", " ", " ", " ", " ", " ", " ", " ", " ", " ", " ", " ", " ", " ", " ", " ", " ", " ", " ", " ", " ", " ", "#", " ", "i", "f", " ", "t", "r", "u", "e", ",", " ", "a", "g", "e", "n", "t", " ", "m", "u", "s", "t", " ", "r", "e", "f", "u", "s", "e", " ", "t", "o", " ", "c", "o", "m", "m", "i", "t", " ", "o", "n", " ", "p", "r", "o", "t", "e", "c", "t", "e", "d", " ", "b", "r", "a", "n", "c", "h", "e", "s">>,
    <<" ", " ", "p", "r", "o", "t", "e", "c", "t", "e", "d", "_", "b", "r", "a", "n", "c", "h", "e", "s", ":", " ", "[", "\"", "m", "a", "i", "n", "\"", ",", " ", "\"", "m", "a", "s", "t", "e", "r", "\"", ",", " ", "\"", "d", "e", "v", "e", "l", "o", "p", "\"", "]">>,
    <<" ", " ", "c", "o", "m", "m", "i", "t", "_", "m", "e", "s", "s", "a", "g", "e", "_", "t", "e", "m", "p", "l", "a", "t", "e", ":", " ", "\"", "{", "i", "d", "}", ":", " ", "{", "t", "i", "t", "l", "e", "}", "\"">>,
    <<" ", " ", "p", "r", "_", "t", "i", "t", "l", "e", "_", "t", "e", "m", "p", "l", "a", "t", "e", ":", " ", "\"", "{", "i", "d", "}", ":", " ", "{", "t", "i", "t", "l", "e", "}", "\"">>>>

\* build_prompts_md(designs): the lines of the design bullets of
\* PROMPTS_MD_TEMPLATE; the fixed text of the template around them is left out
build_prompts_md(designs) ==
  IF designs # <<>> THEN designItems(designs) ELSE <<<<"-", " ", "(", "n", "o", "n", "e", " ", "y", "e", "t", ")">>>>

\* safe_write(path, content, force): the file afterwards
safe_write(file, lines, force) == IF file # Absent /\ ~force THEN file ELSE writeLines(lines)

\* the segments of a path, split at "/"
RECURSIVE splitSlash(_)
splitSlash(s) ==
  LET i == find(s, <<"/">>, 0)
  IN  IF i = -1 THEN <<s>> ELSE <<slice(s, 0, i)>> \o splitSlash(sliceFrom(s, i + 1))

\* os.path.normpath's walk over the segments of a relative path: "" and "."
\* are dropped, ".." removes the segment before it
RECURSIVE normSegments(_, _)
normSegments(segs, acc) ==
  IF segs = <<>> THEN acc
  ELSE LET g == Head(segs)
       IN  IF g = <<>> \/ g = <<".">> THEN normSegments(Tail(segs), acc)
           ELSE IF g = <<".", ".">> /\ acc # <<>> /\ acc[Len(acc)] # <<".", ".">>
           THEN normSegments(Tail(segs), SubSeq(acc, 1, Len(acc) - 1))
           ELSE normSegments(Tail(segs), Append(acc, g))

\* relpath_from_repo(path), for a relative path
relpath_from_repo(path) ==
  LET segs == normSegments(splitSlash(path), <<>>)
  IN  IF segs = <<>> THEN <<".">> ELSE join(<<"/">>, segs)

\* ------------------------------------------------------------------------
\* The repository: its files, and the inputs of the model
\* ------------------------------------------------------------------------

VARIABLES
  index,     \* spec/index.yml, the ledger: Absent or File(lines)
  tasks,     \* spec/tasks: name |-> Absent or File(text)
  settings,  \* spec/settings.yml: Absent or File(lines)
  prompts,   \* spec/prompts.md: Absent or File(lines of the design bullets)
  helpers,   \* template.task.md, policies.md, PLAN.md, EXECUTE.md are written
  last,      \* the last command run and its arguments
  result,    \* what the last command returned: exit code, discrepancies
  running    \* the invocations that run side by side, each at its step

vars == <<index, tasks, settings, prompts, helpers, last, result, running>>

\* no invocation runs beside the command that is run
NobodyRunning == <<>>

\* the entries one initial ledger holds at most
MaxEntries == 2

\* design documents: three that exist, one with a name that ends in a space,
\* a second spelling of the first, and a path that is no file
d_a == <<"a", ".", "m", "d">>

d_a2 == <<".", "/", "a", ".", "m", "d">>

d_b == <<"d", "o", "c", "s", "/", "b", ".", "m", "d">>

d_none == <<"n", "o", "p", "e", ".", "m", "d">>

d_sp == <<"a", ".", "m", "d", " ">>

DesignDocs == {d_a, d_b, d_sp}

DesignArgs == {d_a, d_a2, d_b, d_none}

\* os.path.isfile(path) for a design document
isfile(path) == relpath_from_repo(path) \in DesignDocs

\* the paths for which os.path.exists holds
existingPaths(ix, dir, st, pr) ==
  {taskPath(n) : n \in {m \in DOMAIN dir : dir[m] # Absent}}
    \cup DesignDocs
    \cup (IF ix # Absent THEN {<<"s", "p", "e", "c", "/", "i", "n", "d", "e", "x", ".", "y", "m", "l">>} ELSE {})
    \cup (IF st # Absent THEN {<<"s", "p", "e", "c", "/", "s", "e", "t", "t", "i", "n", "g", "s", ".", "y", "m", "l">>} ELSE {})
    \cup (IF pr # Absent THEN {<<"s", "p", "e", "c", "/", "p", "r", "o", "m", "p", "t", "s", ".", "m", "d">>} ELSE {})

\* the lines that open an initial ledger: its comments and designs
h_empty == <<<<"#", " ", "T", "a", "s", "k", " ", "l", "e", "d", "g", "e", "r">>, <<"d", "e", "s", "i", "g", "n", "s", ":", " ", "[", "]">>>>

h_two == <<<<"d", "e", "s", "i", "g", "n", "s", ":">>, <<"-", " ", "a", ".", "m", "d">>, <<"-", " ", "d", ".", "m", "d">>>>

h_noted == <<<<"d", "e", "s", "i", "g", "n", "s", ":">>, <<" ", " ", "-", " ", "d", ".", "m", "d">>, <<>>, <<"#", " ", "m", "y", " ", "t", "a", "s", "k", "s">>>>

h_comments == <<<<"#", " ", "T", "a", "s", "k", " ", "l", "e", "d", "g", "e", "r">>, <<"#", " ", "b", "y", " ", "h", "a", "n", "d">>>>

LedgerHeads == {h_empty, h_two, h_noted, h_comments, <<>>}

\* the entries of an initial ledger's tasks: two for the id A, one with an
\* empty status and no file, one whose file is not there, one with no id
e_A1 == <<<<"-", " ", "i", "d", ":", " ", "A">>, <<" ", " ", "s", "t", "a", "t", "u", "s", ":", " ", "t", "o", "d", "o">>, <<" ", " ", "f", "i", "l", "e", ":", " ", "s", "p", "e", "c", "/", "t", "a", "s", "k", "s", "/", "T", "1", ".", "m", "d">>>>

e_A2 == <<<<"-", " ", "i", "d", ":", " ", "A">>, <<" ", " ", "s", "t", "a", "t", "u", "s", ":", " ", "D", "o", "i", "n", "g">>, <<" ", " ", "f", "i", "l", "e", ":", " ", "s", "p", "e", "c", "/", "t", "a", "s", "k", "s", "/", "T", "2", ".", "m", "d">>>>

e_B == <<<<"-", " ", "i", "d", ":", " ", "B">>, <<" ", " ", "s", "t", "a", "t", "u", "s", ":">>>>

e_T1 == <<<<"-", " ", "i", "d", ":", " ", "T", "1">>, <<" ", " ", "s", "t", "a", "t", "u", "s", ":", " ", "t", "o", "d", "o">>, <<" ", " ", "f", "i", "l", "e", ":", " ", "s", "p", "e", "c", "/", "t", "a", "s", "k", "s", "/", "T", "9", ".", "m", "d">>>>

e_noid == <<<<"-", " ", "t", "i", "t", "l", "e", ":", " ", "n", "o", " ", "i", "d">>>>

LedgerEntries == {e_A1, e_A2, e_B, e_T1, e_noid}

RECURSIVE flatten(_)
flatten(ss) == IF ss = <<>> THEN <<>> ELSE Head(ss) \o flatten(Tail(ss))

SeqsUpTo(S, n) == UNION {[1..k -> S] : k \in 0..n}

\* the lines that close an initial ledger: its tasks
LedgerTails ==
  {<<>>, <<<<"t", "a", "s", "k", "s", ":", " ", "[", "]">>>>}
    \cup {<<s_tasks>> \o flatten(es) : es \in SeqsUpTo(LedgerEntries, MaxEntries) \ {<<>>}}

\* a few of them: no tasks, an empty list, one entry, one entry with no
\* "tasks:" line before it
SomeTails == {<<>>, <<<<"t", "a", "s", "k", "s", ":", " ", "[", "]">>>>, <<s_tasks>> \o e_A1, e_A1}

\* the ledgers a repository starts with, written by hand or by an agent: none,
\* any head with a few tails, one head with any tail, the tasks before the
\* designs
InitLedgers ==
  {Absent} \cup {File(h \o t) : h \in LedgerHeads, t \in SomeTails}
           \cup {File(h_two \o t) : t \in LedgerTails}
           \cup {File(<<<<"t", "a", "s", "k", "s", ":", " ", "[", "]">>>> \o h_two)}

\* a few of them: none, the one init writes, one with designs and an entry
SomeLedgers == {Absent, File(INDEX_YML), File(h_two \o <<s_tasks>> \o e_A1)}

\* the optional arguments of "tasks"
NoArgs ==
  [check |-> FALSE, strict |-> FALSE, fix |-> FALSE, count |-> FALSE, ids_only |-> FALSE,
   status |-> None, owner |-> None, grep |-> None]

\* the command lines of "tasks" that are tried
TasksArgs ==
  { NoArgs,
    [NoArgs EXCEPT !.check = TRUE],
    [NoArgs EXCEPT !.check = TRUE, !.strict = TRUE],
    [NoArgs EXCEPT !.check = TRUE, !.fix = TRUE],
    [NoArgs EXCEPT !.fix = TRUE],
    [NoArgs EXCEPT !.fix = TRUE, !.count = TRUE],
    [NoArgs EXCEPT !.fix = TRUE, !.ids_only = TRUE],
    [NoArgs EXCEPT !.fix = TRUE, !.status = Some(<<"d", "o", "n", "e", ",", " ", "T", "O", "D", "O">>)],
    [NoArgs EXCEPT !.fix = TRUE, !.owner = Some(<<"M", "e">>)],
    [NoArgs EXCEPT !.fix = TRUE, !.grep = Some(<<"f", "i", "x">>)] }

NoResult == [exit |-> 0, raised |-> FALSE, issues |-> None]

\* the task files a repository starts with; notes.txt is always there
AllDirs ==
  {d \in [DirNames -> {Absent} \cup {File(t) : t \in TaskTexts}] : d[n_notes] = File(t_plain)}

\* a few of them: no task file, one, two that declare the same id, and one
\* with no id and an empty status next to one whose header is not closed
SomeDirs ==
  {d \in AllDirs :
     \/ d[n_T1] = Absent /\ d[n_T2] = Absent
     \/ d[n_T1] = File(t_plain) /\ d[n_T2] = Absent
     \/ d[n_T1] = File(t_doing) /\ d[n_T2] = File(t_plain)
     \/ d[n_T1] = File(t_noid) /\ d[n_T2] = File(t_open)}

\* a repository as the program finds it: any ledger with a few task files, or
\* a few ledgers with any task files; nothing else of the scaffold is written
Init ==
  /\ \/ index \in InitLedgers /\ tasks \in SomeDirs
     \/ index \in SomeLedgers /\ tasks \in AllDirs
  /\ settings = Absent
  /\ prompts = Absent
  /\ helpers = FALSE
  /\ last = [cmd |-> "none", check |-> FALSE, fix |-> FALSE, again |-> FALSE]
  /\ result = NoResult
  /\ running = NobodyRunning

\* ------------------------------------------------------------------------
\* The commands
\* ------------------------------------------------------------------------

\* what is remembered of a command: its name, the --check and --fix flags of
\* "tasks", and for the two commands that are run repeatedly, "reindex" and
\* "tasks --check" with no --fix, whether the command before it was the same
Ran(cmd, check, fix) ==
  [cmd |-> cmd, check |-> check, fix |-> fix,
   again |-> /\ cmd = "reindex" \/ (cmd = "tasks" /\ check /\ ~fix)
             /\ last.cmd = cmd /\ last.check = check /\ last.fix = fix]

\* init_scaffold(force, force_index): the files afterwards
init_scaffold(ix, st, pr, force, force_index) ==
  [index    |-> safe_write(ix, INDEX_YML, force_index),
   settings |-> safe_write(st, SETTINGS_YML, force),
   prompts  |-> safe_write(pr, build_prompts_md(<<>>), force),
   helpers  |-> TRUE]

\* cmd_init(args)
CmdInit(force, force_index) ==
  /\ \E fs \in {init_scaffold(index, settings, prompts, force, force_index)} :
       /\ index' = fs.index
       /\ settings' = fs.settings
       /\ prompts' = fs.prompts
       /\ helpers' = fs.helpers
  /\ last' = Ran("init", FALSE, FALSE)
  /\ result' = NoResult
  /\ UNCHANGED <<tasks, running>>

\* cmd_add(args) on a path that is no file: exit code 2
CmdAddMissing(design) ==
  /\ ~isfile(design)
  /\ last' = Ran("add", FALSE, FALSE)
  /\ result' = [NoResult EXCEPT !.exit = 2]
  /\ UNCHANGED <<index, tasks, settings, prompts, helpers, running>>

\* cmd_add(args) on a design document: the files afterwards
cmd_add(design, ix, st, pr, hl) ==
  LET fs == IF ix = Absent THEN init_scaffold(ix, st, pr, FALSE, FALSE)
            ELSE [index |-> ix, settings |-> st, prompts |-> pr, helpers |-> hl]
      design_rel == relpath_from_repo(design)
      designs == load_designs_from_index(fs.index)
      isNew == \A i \in 1..Len(designs) : designs[i] # design_rel
      designs2 == IF isNew THEN Append(designs, design_rel) ELSE designs
  IN  [index    |-> IF isNew THEN save_designs_to_index(fs.index, designs2) ELSE fs.index,
       prompts  |-> writeLines(build_prompts_md(designs2)),
       settings |-> fs.settings,
       helpers  |-> fs.helpers]

\* cmd_add(args) on a design document
CmdAdd(design) ==
  /\ isfile(design)
  /\ \E fs \in {cmd_add(design, index, settings, prompts, helpers)} :
       /\ index' = fs.index
       /\ prompts' = fs.prompts
       /\ settings' = fs.settings
       /\ helpers' = fs.helpers
  /\ last' = Ran("add", FALSE, FALSE)
  /\ result' = NoResult
  /\ UNCHANGED <<tasks, running>>

\* cmd_reindex(args)
CmdReindex ==
  /\ index' = reindexFile(index, tasks)
  /\ last' = Ran("reindex", FALSE, FALSE)
  /\ result' = NoResult
  /\ UNCHANGED <<tasks, settings, prompts, helpers, running>>

\* {s.strip().lower() for s in re.split(r"[,\s]+", status) if s.strip()}
RECURSIVE splitCommaSpace(_, _)
splitCommaSpace(s, cur) ==
  IF s = <<>> THEN (IF cur = <<>> THEN {} ELSE {cur})
  ELSE IF Head(s) \in WHITESPACE \cup {","}
  THEN (IF cur = <<>> THEN {} ELSE {cur}) \cup splitCommaSpace(Tail(s), <<>>)
  ELSE splitCommaSpace(Tail(s), Append(cur, Head(s)))

statusWant(status) == {lower(x) : x \in splitCommaSpace(status, <<>>)}

\* the filters of cmd_tasks: is the task t shown
shown(t, a) ==
  /\ getOr(a.status, <<>>) # <<>> => lower(t.status) \in statusWant(a.status[1])
  /\ getOr(a.owner, <<>>) # <<>> => lower(t.owner) = lower(a.owner[1])
  /\ getOr(a.grep, <<>>) # <<>> =>
       \/ contains(lower(t.title), lower(a.grep[1]))
       \/ contains(lower(t.id), lower(a.grep[1]))

\* cmd_tasks(args) with a --check that rebuilds the ledger as --fix does
tasksRunFixOnCheck(a, ix, rd) ==
  LET raised == a.check /\ quick_diff_raises(rd.idx)
      issues == IF a.check /\ ~raised THEN Some(rd.diff[1]) ELSE None
  IN  [index  |-> IF ~raised /\ (a.fix \/ a.check) THEN rd.rebuilt ELSE ix,
       result |-> [exit |-> 0, raised |-> raised, issues |-> issues]]

\* cmd_tasks(args): the ledger afterwards and what is returned. It ends at the
\* KeyError of the check, at the exit of --strict, after --count, after
\* --ids-only or when no task is left to show, and else goes on to the table
\* and to --fix, which rebuilds the ledger
tasksRun(a, ix, rd) ==
  LET raised == a.check /\ quick_diff_raises(rd.idx)
      issues == IF a.check /\ ~raised THEN Some(rd.diff[1]) ELSE None
      strict == a.check /\ ~raised /\ a.strict /\ issues[1] # <<>>
      anyShown == \E i \in 1..Len(rd.ft) : shown(rd.ft[i], a)
      fix == ~raised /\ ~strict /\ ~a.count /\ ~a.ids_only /\ anyShown /\ a.fix
  IN  [index  |-> IF fix THEN rd.rebuilt ELSE ix,
       result |-> [exit |-> IF raised \/ strict THEN 1 ELSE 0, raised |-> raised,
                   issues |-> issues]]

\* what cmd_tasks reads and computes whatever its arguments are: the tasks of
\* the files, the entries of the ledger, the result of the check (None when
\* it raises) and the ledger a rebuild writes
tasksRead(ix, dir, st, pr) ==
  LET ft  == fileTasks(dir)
      idx == parse_index_tasks(ix)
  IN  [ft |-> ft, idx |-> idx,
       diff |-> IF quick_diff_raises(idx) THEN None
                ELSE Some(quick_diff_files_vs_index(ft, idx, existingPaths(ix, dir, st, pr))),
       rebuilt |-> reindexFile(ix, dir)]

\* cmd_tasks(args)
CmdTasks ==
  \E rd \in {tasksRead(index, tasks, settings, prompts)} :
    \E a \in TasksArgs :
      \E r \in {tasksRun(a, index, rd)} :
        /\ index' = r.index
        /\ last' = Ran("tasks", a.check, a.fix)
        /\ result' = r.result
        /\ UNCHANGED <<tasks, settings, prompts, helpers, running>>

Next ==
  \/ \E force \in BOOLEAN, force_index \in BOOLEAN : CmdInit(force, force_index)
  \/ \E design \in DesignArgs : CmdAdd(design)
  \/ \E design \in DesignArgs : CmdAddMissing(design)
  \/ CmdReindex
  \/ CmdTasks

Spec == Init /\ [][Next]_vars

\* ------------------------------------------------------------------------
\* Properties
\* ------------------------------------------------------------------------

\* the names of the task files there are: the *.md of spec/tasks
TaskFileNames == {n \in DOMAIN tasks : tasks[n] # Absent /\ endswith(n, <<".", "m", "d">>)}

\* the entries of the ledger's tasks section, as the program reads them
LedgerEntriesNow == parse_index_tasks(index)

\* the last command was a rebuild
Rebuilt == last.cmd = "reindex"

\* the last command was a drift check with no --fix, and its diff returned:
\* result.issues[1] is what diff returned for the files and the ledger as
\* they are
DiffReturned == last.cmd = "tasks" /\ last.check /\ ~last.fix /\ ~result.raised

\* how many discrepancies of one kind the last diff returned for an id
countOf(type, tid) ==
  Cardinality({i \in 1..Len(result.issues[1]) :
                 result.issues[1][i].type = type /\ result.issues[1][i].id = tid})

\* a is b with some of its elements left out
RECURSIVE IsSubseq(_, _)
IsSubseq(a, b) ==
  IF a = <<>> THEN TRUE
  ELSE IF b = <<>> THEN FALSE
  ELSE IF Head(a) = Head(b) THEN IsSubseq(Tail(a), Tail(b))
  ELSE IsSubseq(a, Tail(b))

\* C1: rebuild is idempotent. A rebuild that directly follows a rebuild, the
\* task files being the same, leaves the ledger exactly as the first rebuild
\* wrote it, whatever the ledger was before and whatever the task files are.
C1_RebuildIdempotent ==
  [][(Rebuilt /\ last'.cmd = "reindex") => index' = index]_vars

\* C1: a second rebuild in a row has run, on a ledger that lists designs and
\* two task files
C1_Witness ==
  /\ Rebuilt /\ last.again
  /\ Len(load_designs_from_index(index)) = 2
  /\ Len(LedgerEntriesNow) = 2

\* the record C2 expects for the task file of a name: the id its header
\* declares, else its base name without the extension; the status its header
\* declares, else "todo"
expectedRecord(name) ==
  LET fm == parse_frontmatter_min(tasks[name][1])
  IN  [id     |-> Some(IF getOr(fm.id, <<>>) # <<>> THEN fm.id[1] ELSE splitextRoot(name)),
       status |-> Some(IF fm.status # None THEN fm.status[1] ELSE <<"t", "o", "d", "o">>),
       file   |-> Some(taskPath(name))]

C3_RebuildKeepsDesigns ==
  [][last'.cmd = "reindex" =>
       load_designs_from_index(index') = load_designs_from_index(index)]_vars

\* C3: a rebuild has run on a ledger that lists two designs and has written
\* an entry
C3_Witness ==
  /\ Rebuilt
  /\ Len(load_designs_from_index(index)) = 2
  /\ LedgerEntriesNow # <<>>

\* C4: a rebuild restores the consistency of ledger and files. A drift check
\* that directly follows a rebuild reports no discrepancy of any kind,
\* whatever the task files are: with no header, a header that is not closed,
\* an empty id or status, quoted values.
C4_RebuildRestoresConsistency ==
  [][(Rebuilt /\ last'.cmd = "tasks" /\ last'.check) => result'.issues = Some(<<>>)]_vars

\* the lines of a ledger outside its designs region, in order: all but the
\* "designs:" line and the list items that follow it; comments and blank
\* lines are outside it wherever they stand
RECURSIVE outsideDesigns(_, _)
outsideDesigns(lines, in_designs) ==
  IF lines = <<>> THEN <<>>
  ELSE IF startswith(strip(Head(lines)), s_designs)
  THEN outsideDesigns(Tail(lines), TRUE)
  ELSE IF in_designs /\ startswith(strip(Head(lines)), s_item)
  THEN outsideDesigns(Tail(lines), TRUE)
  ELSE IF strip(Head(lines)) = <<>> \/ startswith(strip(Head(lines)), <<"#">>)
  THEN <<Head(lines)>> \o outsideDesigns(Tail(lines), in_designs)
  ELSE <<Head(lines)>> \o outsideDesigns(Tail(lines), FALSE)

\* C5: saving the designs rewrites the designs region only. When "add" saves
\* the design list to a ledger that exists, every line of the ledger outside
\* the "designs:" line and its list items is in the ledger afterwards,
\* unchanged and in the same order: the tasks section, and comments and blank
\* lines wherever they stand.
C5_SaveKeepsOtherLines ==
  [][(last'.cmd = "add" /\ index # Absent /\ index' # index) =>
       IsSubseq(outsideDesigns(readLines(index), FALSE), readLines(index'))]_vars

\* the id of the task file of a name: what its header declares, and the base
\* name of the file when it has no header
fileId(name) ==
  IF parse_task_file_raises(tasks[name][1]) THEN dropLast3(name)
  ELSE parse_task_file(taskPath(name), tasks[name][1]).id

\* the ids of the entries of the ledger
LedgerIds == {LedgerEntriesNow[i].id[1] : i \in {j \in 1..Len(LedgerEntriesNow) : LedgerEntriesNow[j].id # None}}

\* C6: for a task file whose id has no entry in the tasks section of the
\* ledger, diff returns exactly one missing_in_index for that id and no
\* discrepancy of another kind for it. (Stated of the checks whose diff
\* returns.)
C6_MissingInIndex ==
  DiffReturned =>
    \A n \in TaskFileNames :
      fileId(n) \notin LedgerIds =>
        /\ countOf("missing_in_index", fileId(n)) = 1
        /\ countOf("missing_file", fileId(n)) = 0
        /\ countOf("status_mismatch", fileId(n)) = 0

\* C7: for an entry of the ledger whose file (its "file" field, or
\* spec/tasks/<id>.md when it has none) does not exist, diff returns exactly
\* one missing_file for the id of the entry. (Stated of the checks whose diff
\* returns, so of ledgers whose entries all have an id.)
C7_MissingFile ==
  DiffReturned =>
    \A i \in 1..Len(LedgerEntriesNow) :
      indexFile(LedgerEntriesNow[i], LedgerEntriesNow[i].id[1])
          \notin existingPaths(index, tasks, settings, prompts)
        => countOf("missing_file", LedgerEntriesNow[i].id[1]) = 1

\* the task files with a header that declare an id, and the ledger entries
\* with that id
filesOfId(tid) ==
  {n \in TaskFileNames : ~parse_task_file_raises(tasks[n][1]) /\ fileId(n) = tid}

entriesOfId(tid) == {i \in 1..Len(LedgerEntriesNow) : LedgerEntriesNow[i].id = Some(tid)}

\* the status of the header of a task file, and the status the ledger caches
\* in an entry
fileStatus(name) == parse_task_file(taskPath(name), tasks[name][1]).status

entryStatus(i) == getOr(LedgerEntriesNow[i].status, <<>>)

\* C8: for an id that is both a task file and an entry of the ledger, diff
\* returns exactly one status_mismatch, with both status values, when the
\* status of the file's header differs from the status the ledger caches,
\* compared without regard to case, and none when they are equal up to case.
\* (Stated of the checks whose diff returns, and of the ids that one file
\* with a header and one entry declare.)
C8_StatusMismatch ==
  DiffReturned =>
    \A n \in TaskFileNames : \A i \in 1..Len(LedgerEntriesNow) :
      (filesOfId(fileId(n)) = {n} /\ entriesOfId(fileId(n)) = {i}) =>
        IF lower(fileStatus(n)) # lower(entryStatus(i))
        THEN /\ countOf("status_mismatch", fileId(n)) = 1
             /\ \E k \in 1..Len(result.issues[1]) :
                  /\ result.issues[1][k].type = "status_mismatch"
                  /\ result.issues[1][k].id = fileId(n)
                  /\ result.issues[1][k].file_status = Some(lower(fileStatus(n)))
                  /\ result.issues[1][k].index_status = Some(lower(entryStatus(i)))
        ELSE countOf("status_mismatch", fileId(n)) = 0

\* C9, as the specification states it: the three kinds diff reports are
\* disjoint. No id is reported under more than one of missing_in_index,
\* missing_file and status_mismatch in one result.
C9_KindsDisjoint ==
  (last.cmd = "tasks" /\ last.check /\ ~result.raised) =>
    \A i, j \in 1..Len(result.issues[1]) :
      result.issues[1][i].id = result.issues[1][j].id
        => result.issues[1][i].type = result.issues[1][j].type

\* C10: the drift check is read-only. "tasks --check" with no --fix leaves
\* the ledger, every task file, the settings file and prompts.md as they are,
\* however often it runs, and a check that directly follows a check returns
\* the same discrepancies.
C10_CheckReadOnly ==
  [][(last'.cmd = "tasks" /\ last'.check /\ ~last'.fix) =>
       /\ index' = index /\ tasks' = tasks /\ settings' = settings /\ prompts' = prompts
       /\ last'.again => (result'.issues = result.issues /\ result'.raised = result.raised)]_vars

\* C10: a second drift check in a row has run and has returned discrepancies
C10_Witness ==
  /\ DiffReturned /\ last.again
  /\ result.issues[1] # <<>>
  /\ index # Absent

\* C11: diff never raises on drift. For every ledger that can be read, with
\* entries that lack an id, a status or a file field, and every set of task
\* files, the drift check returns discrepancies and does not end with an
\* error.
C11_DiffNeverRaises ==
  (last.cmd = "tasks" /\ last.check) => (~result.raised /\ result.issues # None)

\* C17: a text that does not begin with the opening marker of a header parses
\* to an empty field set and not to a failure. For a task file whose text
\* does not start with "---", parse_frontmatter_min, which rebuild uses,
\* returns no field, and parse_task_file, which "tasks" uses for its listing
\* and its drift check, does not raise.
C17_NoHeaderParses ==
  last.cmd = "tasks" =>
    \A n \in TaskFileNames :
      ~startswith(tasks[n][1], <<"-", "-", "-">>) =>
        /\ parse_frontmatter_min(tasks[n][1]) = EmptyFields
        /\ ~parse_task_file_raises(tasks[n][1])

\* C20: "tasks --fix" is the same as reindex. Whatever the task files, the
\* ledger and the other flags of "tasks" are, the ledger after "tasks --fix"
\* is the ledger reindex writes from the same files and ledger.
C20_FixIsReindex ==
  [][(last'.cmd = "tasks" /\ last'.fix) => index' = reindexFile(index, tasks)]_vars

\* ------------------------------------------------------------------------
\* The settings file
\* ------------------------------------------------------------------------

\* the keys of the settings, by kind
k_auto == <<"a", "u", "t", "o", "_", "e", "x", "e", "c", "u", "t", "e", "_", "a", "f", "t", "e", "r", "_", "p", "l", "a", "n", "n", "i", "n", "g">>

k_loop == <<"n", "e", "x", "t", "_", "t", "a", "s", "k", "_", "l", "o", "o", "p">>

k_require_owner == <<"r", "e", "q", "u", "i", "r", "e", "_", "o", "w", "n", "e", "r", "_", "f", "o", "r", "_", "d", "o", "i", "n", "g">>

k_enforce == <<"e", "n", "f", "o", "r", "c", "e", "_", "b", "r", "a", "n", "c", "h", "i", "n", "g">>

k_branch == <<"b", "r", "a", "n", "c", "h", "_", "n", "a", "m", "i", "n", "g">>

k_feature_branch == <<"f", "e", "a", "t", "u", "r", "e", "_", "b", "r", "a", "n", "c", "h", "_", "n", "a", "m", "i", "n", "g">>

k_commit_tmpl == <<"c", "o", "m", "m", "i", "t", "_", "m", "e", "s", "s", "a", "g", "e", "_", "t", "e", "m", "p", "l", "a", "t", "e">>

k_pr_title_tmpl == <<"p", "r", "_", "t", "i", "t", "l", "e", "_", "t", "e", "m", "p", "l", "a", "t", "e">>

k_protected == <<"p", "r", "o", "t", "e", "c", "t", "e", "d", "_", "b", "r", "a", "n", "c", "h", "e", "s">>

k_feature_bases == <<"f", "e", "a", "t", "u", "r", "e", "_", "b", "a", "s", "e", "_", "c", "a", "n", "d", "i", "d", "a", "t", "e", "s">>

s_settings == <<"s", "e", "t", "t", "i", "n", "g", "s", ":">>

\* the dictionary load_settings builds, before any key is set
EmptySettings ==
  [auto_execute_after_planning |-> None, next_task_loop |-> None,
   require_owner_for_doing |-> None, feature_branch_naming |-> None,
   branch_naming |-> None, feature_base_candidates |-> None,
   enforce_branching |-> None, protected_branches |-> None,
   commit_message_template |-> None, pr_title_template |-> None]

\* [p for p in parts if p]
RECURSIVE nonEmpty(_)
nonEmpty(parts) ==
  IF parts = <<>> THEN <<>>
  ELSE (IF Head(parts) # <<>> THEN <<Head(parts)>> ELSE <<>>) \o nonEmpty(Tail(parts))

\* [p.strip() for p in parts]
stripEach(parts) == [i \in 1..Len(parts) |-> strip(parts[i])]

\* the list load_settings reads from the value of a list key
settingsList(val) ==
  IF startswith(val, <<"[">>) /\ endswith(val, <<"]">>)
  THEN nonEmpty(listItems(splitComma(strip(slice(val, 1, Len(val) - 1)))))
  ELSE nonEmpty(stripEach(splitComma(val)))

\* load_settings' loop body for a "key: value" line of the block
settingsLine(out, s) ==
  LET kv  == splitColon(s)
      key == strip(kv[1])
      val == strip(kv[2])
      b   == Some(startswith(lower(val), <<"t", "r", "u", "e">>))
      q   == Some(stripc(val, QUOTE2))
      l   == Some(settingsList(val))
  IN  IF key = k_auto THEN [out EXCEPT !.auto_execute_after_planning = b]
      ELSE IF key = k_require_owner THEN [out EXCEPT !.require_owner_for_doing = b]
      ELSE IF key = k_enforce THEN [out EXCEPT !.enforce_branching = b]
      ELSE IF key = k_loop THEN [out EXCEPT !.next_task_loop = Some(val)]
      ELSE IF key = k_branch THEN [out EXCEPT !.branch_naming = q]
      ELSE IF key = k_feature_branch THEN [out EXCEPT !.feature_branch_naming = q]
      ELSE IF key = k_commit_tmpl THEN [out EXCEPT !.commit_message_template = q]
      ELSE IF key = k_pr_title_tmpl THEN [out EXCEPT !.pr_title_template = q]
      ELSE IF key = k_protected THEN [out EXCEPT !.protected_branches = l]
      ELSE IF key = k_feature_bases THEN [out EXCEPT !.feature_base_candidates = l]
      ELSE out

\* load_settings' loop over the lines of the file
RECURSIVE settingsLoop(_, _, _)
settingsLoop(out, in_block, lines) ==
  IF lines = <<>> THEN out
  ELSE LET s == strip(Head(lines))
       IN  IF startswith(s, s_settings) THEN settingsLoop(out, TRUE, Tail(lines))
           ELSE IF ~in_block \/ s = <<>> \/ startswith(s, <<"#">>)
           THEN settingsLoop(out, in_block, Tail(lines))
           ELSE IF contains(s, <<":">>)
           THEN settingsLoop(settingsLine(out, s), in_block, Tail(lines))
           ELSE settingsLoop(out, in_block, Tail(lines))

\* load_settings(): the dictionary read from spec/settings.yml, with the keys
\* the file sets and no other
load_settings(st) ==
  IF st = Absent THEN EmptySettings ELSE settingsLoop(EmptySettings, FALSE, readLines(st))

\* the defaults save_settings starts from
SettingsDefaults ==
  [auto_execute_after_planning |-> FALSE, next_task_loop |-> <<"m", "a", "n", "u", "a", "l">>,
   require_owner_for_doing |-> FALSE,
   feature_branch_naming |-> <<"f", "e", "a", "t", "/", "{", "f", "e", "a", "t", "u", "r", "e", "_", "s", "l", "u", "g", "}">>,
   branch_naming |-> <<"f", "e", "a", "t", "/", "{", "f", "e", "a", "t", "u", "r", "e", "_", "s", "l", "u", "g", "}", "/", "{", "i", "d", "}", "-", "{", "s", "l", "u", "g", "}">>,
   feature_base_candidates |-> <<<<"m", "a", "i", "n">>, <<"m", "a", "s", "t", "e", "r">>, <<"d", "e", "v", "e", "l", "o", "p">>>>,
   enforce_branching |-> TRUE,
   protected_branches |-> <<<<"m", "a", "i", "n">>, <<"m", "a", "s", "t", "e", "r">>, <<"d", "e", "v", "e", "l", "o", "p">>>>,
   commit_message_template |-> <<"{", "i", "d", "}", ":", " ", "{", "t", "i", "t", "l", "e", "}">>,
   pr_title_template |-> <<"{", "i", "d", "}", ":", " ", "{", "t", "i", "t", "l", "e", "}">>]

\* current.update(values): the defaults, with the keys of values set
settingsCurrent(values) ==
  [k \in DOMAIN SettingsDefaults |-> getOr(values[k], SettingsDefaults[k])]

\* ", ".join(f'"{b}"' for b in xs)
quotedItems(xs) == join(<<",", " ">>, [i \in 1..Len(xs) |-> <<"\"">> \o xs[i] \o <<"\"">>])

boolText(b) == IF b THEN <<"t", "r", "u", "e">> ELSE <<"f", "a", "l", "s", "e">>

\* save_settings(values): the lines of the file it writes
save_settings(values) ==
  LET current == settingsCurrent(values)
  IN  << <<"#", " ", "M", "i", "n", "i", "m", "a", "l", " ", "e", "x", "e", "c", "u", "t", "i", "o", "n", " ", "s", "e", "t", "t", "i", "n", "g", "s", " ", "f", "o", "r", " ", "a", "g", "e", "n", "t", "s">>,
         s_settings,
         <<" ", " ", "a", "u", "t", "o", "_", "e", "x", "e", "c", "u", "t", "e", "_", "a", "f", "t", "e", "r", "_", "p", "l", "a", "n", "n", "i", "n", "g", ":", " ">> \o boolText(current.auto_execute_after_planning),
         <<" ", " ", "n", "e", "x", "t", "_", "t", "a", "s", "k", "_", "l", "o", "o", "p", ":", " ">> \o current.next_task_loop,
         <<" ", " ", "r", "e", "q", "u", "i", "r", "e", "_", "o", "w", "n", "e", "r", "_", "f", "o", "r", "_", "d", "o", "i", "n", "g", ":", " ">> \o boolText(current.require_owner_for_doing),
         <<>>,
         <<" ", " ", "#", " ", "B", "r", "a", "n", "c", "h", "i", "n", "g", " ", "w", "o", "r", "k", "f", "l", "o", "w", " ", "(", "f", "e", "a", "t", "u", "r", "e", "-", "p", "a", "r", "e", "n", "t", " ", "+", " ", "p", "e", "r", "-", "t", "a", "s", "k", " ", "b", "r", "a", "n", "c", "h", "e", "s", ")">>,
         <<" ", " ", "f", "e", "a", "t", "u", "r", "e", "_", "b", "r", "a", "n", "c", "h", "_", "n", "a", "m", "i", "n", "g", ":", " ", "\"">> \o current.feature_branch_naming \o <<"\"">>,
         <<" ", " ", "b", "r", "a", "n", "c", "h", "_", "n", "a", "m", "i", "n", "g", ":", " ", "\"">> \o current.branch_naming \o <<"\"">>,
         <<" ", " ", "f", "e", "a", "t", "u", "r", "e", "_", "b", "a", "s", "e", "_", "c", "a", "n", "d", "i", "d", "a", "t", "e", "s", ":", " ", "[">> \o quotedItems(current.feature_base_candidates) \o <<"]">>,
         <<>>,
         <<" ", " ", "e", "n", "f", "o", "r", "c", "e", "_", "b", "r", "a", "n", "c", "h", "i", "n", "g", ":", " ">> \o boolText(current.enforce_branching),
         <<" ", " ", "p", "r", "o", "t", "e", "c", "t", "e", "d", "_", "b", "r", "a", "n", "c", "h", "e", "s", ":", " ", "[">> \o quotedItems(current.protected_branches) \o <<"]">>,
         <<" ", " ", "c", "o", "m", "m", "i", "t", "_", "m", "e", "s", "s", "a", "g", "e", "_", "t", "e", "m", "p", "l", "a", "t", "e", ":", " ", "\"">> \o current.commit_message_template \o <<"\"">>,
         <<" ", " ", "p", "r", "_", "t", "i", "t", "l", "e", "_", "t", "e", "m", "p", "l", "a", "t", "e", ":", " ", "\"">> \o current.pr_title_template \o <<"\"">> >>

\* s.replace(",", " ").split(): the words between commas and white space
RECURSIVE splitWords(_, _)
splitWords(s, cur) ==
  IF s = <<>> THEN (IF cur = <<>> THEN <<>> ELSE <<cur>>)
  ELSE IF Head(s) \in WHITESPACE \cup {","}
  THEN (IF cur = <<>> THEN <<>> ELSE <<cur>>) \o splitWords(Tail(s), <<>>)
  ELSE splitWords(Tail(s), Append(cur, Head(s)))

\* the optional arguments of "config": none given
NoConfig ==
  [auto |-> None, loop |-> None, require_owner |-> None, branch |-> None,
   enforce |-> None, protected |-> None, commit_tmpl |-> None,
   pr_title_tmpl |-> None, feature_branch |-> None, feature_bases |-> None]

s_on == <<"o", "n">>

\* the assignments of cmd_config: vals with the arguments that are given
configUpdate(vals, a) ==
  [auto_execute_after_planning |->
     IF a.auto # None THEN Some(a.auto[1] = s_on) ELSE vals.auto_execute_after_planning,
   next_task_loop |-> IF a.loop # None THEN a.loop ELSE vals.next_task_loop,
   require_owner_for_doing |->
     IF a.require_owner # None THEN Some(a.require_owner[1] = s_on)
     ELSE vals.require_owner_for_doing,
   branch_naming |-> IF getOr(a.branch, <<>>) # <<>> THEN a.branch ELSE vals.branch_naming,
   enforce_branching |->
     IF a.enforce # None THEN Some(a.enforce[1] = s_on) ELSE vals.enforce_branching,
   protected_branches |->
     IF getOr(a.protected, <<>>) # <<>> THEN Some(splitWords(a.protected[1], <<>>))
     ELSE vals.protected_branches,
   commit_message_template |->
     IF getOr(a.commit_tmpl, <<>>) # <<>> THEN a.commit_tmpl ELSE vals.commit_message_template,
   pr_title_template |->
     IF getOr(a.pr_title_tmpl, <<>>) # <<>> THEN a.pr_title_tmpl ELSE vals.pr_title_template,
   feature_branch_naming |->
     IF getOr(a.feature_branch, <<>>) # <<>> THEN a.feature_branch
     ELSE vals.feature_branch_naming,
   feature_base_candidates |->
     IF getOr(a.feature_bases, <<>>) # <<>> THEN Some(splitWords(a.feature_bases[1], <<>>))
     ELSE vals.feature_base_candidates]

\* cmd_config(args): the files afterwards and the dictionary it loaded
cmd_config(a, ix, st, pr, hl) ==
  LET fs   == IF st = Absent THEN init_scaffold(ix, st, pr, FALSE, FALSE)
              ELSE [index |-> ix, settings |-> st, prompts |-> pr, helpers |-> hl]
      vals == load_settings(fs.settings)
  IN  [index    |-> fs.index,
       settings |-> writeLines(save_settings(configUpdate(vals, a))),
       prompts  |-> fs.prompts,
       helpers  |-> fs.helpers,
       loaded   |-> vals]

\* settings files a repository starts with: the one init writes; one that sets
\* two keys; one with a boolean that is no boolean, a boolean in capitals, a
\* list with no brackets and a list whose bracket is not closed; one with no
\* "settings:" line
st_scaffold == File(SETTINGS_YML)

st_partial == File(<<s_settings, <<" ", " ", "e", "n", "f", "o", "r", "c", "e", "_", "b", "r", "a", "n", "c", "h", "i", "n", "g", ":", " ", "f", "a", "l", "s", "e">>, <<" ", " ", "n", "e", "x", "t", "_", "t", "a", "s", "k", "_", "l", "o", "o", "p", ":", " ", "a", "u", "t", "o">>>>)

st_malformed ==
  File(<<s_settings, <<" ", " ", "e", "n", "f", "o", "r", "c", "e", "_", "b", "r", "a", "n", "c", "h", "i", "n", "g", ":", " ", "y", "e", "s">>, <<" ", " ", "a", "u", "t", "o", "_", "e", "x", "e", "c", "u", "t", "e", "_", "a", "f", "t", "e", "r", "_", "p", "l", "a", "n", "n", "i", "n", "g", ":", " ", "T", "R", "U", "E">>,
         <<" ", " ", "p", "r", "o", "t", "e", "c", "t", "e", "d", "_", "b", "r", "a", "n", "c", "h", "e", "s", ":", " ", "m", "a", "i", "n", ",", " ", "d", "e", "v">>, <<" ", " ", "f", "e", "a", "t", "u", "r", "e", "_", "b", "a", "s", "e", "_", "c", "a", "n", "d", "i", "d", "a", "t", "e", "s", ":", " ", "[", "m", "a", "i", "n">>>>)

st_nohdr == File(<<<<"e", "n", "f", "o", "r", "c", "e", "_", "b", "r", "a", "n", "c", "h", "i", "n", "g", ":", " ", "f", "a", "l", "s", "e">>>>)

SettingsFiles == {Absent, st_scaffold, st_partial, st_malformed, st_nohdr}

\* the command lines of "config" that are tried
ConfigArgs ==
  { NoConfig,
    [NoConfig EXCEPT !.auto = Some(s_on)],
    [NoConfig EXCEPT !.enforce = Some(<<"o", "f", "f">>), !.loop = Some(<<"a", "u", "t", "o">>)],
    [NoConfig EXCEPT !.branch = Some(<<"\"", "x", "\"">>)],
    [NoConfig EXCEPT !.protected = Some(<<"m", "a", "i", "n", ",", " ", "'", "r", "e", "l", "'">>)],
    [NoConfig EXCEPT !.commit_tmpl = Some(<<"{", "i", "d", "}", ",", " ", "{", "t", "i", "t", "l", "e", "}">>)],
    [NoConfig EXCEPT !.feature_branch = Some(<<"f", "/", "{", "f", "e", "a", "t", "u", "r", "e", "_", "s", "l", "u", "g", "}">>), !.feature_bases = Some(<<"d", "e", "v">>)] }

\* a repository with no ledger and no task file, and any of the settings files
InitSettings ==
  /\ index = Absent
  /\ tasks \in {d \in AllDirs : d[n_T1] = Absent /\ d[n_T2] = Absent}
  /\ settings \in SettingsFiles
  /\ prompts = Absent
  /\ helpers = FALSE
  /\ last = [cmd |-> "none", check |-> FALSE, fix |-> FALSE, again |-> FALSE]
  /\ result = NoResult
  /\ running = NobodyRunning

\* cmd_config(args); what is remembered is its arguments, and what it returned
\* is the dictionary it loaded
CmdConfig(a) ==
  /\ \E fs \in {cmd_config(a, index, settings, prompts, helpers)} :
       /\ index' = fs.index
       /\ settings' = fs.settings
       /\ prompts' = fs.prompts
       /\ helpers' = fs.helpers
       /\ result' = [exit |-> 0, raised |-> FALSE, issues |-> None, loaded |-> fs.loaded]
  /\ last' = [cmd |-> "config", check |-> FALSE, fix |-> FALSE, again |-> last.cmd = "config",
              args |-> a]
  /\ UNCHANGED <<tasks, running>>

NextSettings ==
  \/ \E a \in ConfigArgs : CmdConfig(a)
  \/ \E force \in BOOLEAN : CmdInit(force, FALSE)

SpecSettings == InitSettings /\ [][NextSettings]_vars

\* C12: loading the settings yields the full record. For a settings file
\* that is absent or sets only some of the keys, the dictionary load_settings
\* returns holds every one of the ten fields.
C12_LoadFillsDefaults ==
  last.cmd = "config" => \A k \in DOMAIN SettingsDefaults : result.loaded[k] # None

\* C13: saving what was loaded is a round trip. Once "config" has written
\* the settings file, a "config" with no argument, which saves what it loads,
\* rewrites the file as it is.
C13_SaveLoadRoundTrip ==
  [][(last.cmd = "config" /\ last'.cmd = "config" /\ last'.args = NoConfig)
       => settings' = settings]_vars

\* the text of the keys, by field
keyText ==
  [auto_execute_after_planning |-> k_auto, next_task_loop |-> k_loop,
   require_owner_for_doing |-> k_require_owner, feature_branch_naming |-> k_feature_branch,
   branch_naming |-> k_branch, feature_base_candidates |-> k_feature_bases,
   enforce_branching |-> k_enforce, protected_branches |-> k_protected,
   commit_message_template |-> k_commit_tmpl, pr_title_template |-> k_pr_title_tmpl]

\* the value a settings file gives to a key, as text: what follows the key
\* in the last line of the block that sets it
RECURSIVE rawSetting(_, _, _, _)
rawSetting(raw, in_block, lines, key) ==
  IF lines = <<>> THEN raw
  ELSE LET s == strip(Head(lines))
       IN  IF startswith(s, s_settings) THEN rawSetting(raw, TRUE, Tail(lines), key)
           ELSE IF in_block /\ s # <<>> /\ ~startswith(s, <<"#">>) /\ contains(s, <<":">>)
                   /\ strip(splitColon(s)[1]) = key
           THEN rawSetting(Some(strip(splitColon(s)[2])), in_block, Tail(lines), key)
           ELSE rawSetting(raw, in_block, Tail(lines), key)

BoolFields == {"auto_execute_after_planning", "require_owner_for_doing", "enforce_branching"}

ListFields == {"protected_branches", "feature_base_candidates"}

\* C14: a boolean or a list that is malformed loads as the default of its
\* field. When the settings file gives a boolean key a value that is neither
\* "true" nor "false" in any case of letters, or a list key a value that is
\* not a list in brackets, the field that is loaded is the default.
C14_MalformedIsDefault ==
  [][(last'.cmd = "config" /\ settings # Absent) =>
       /\ \A k \in BoolFields :
            LET raw == rawSetting(None, FALSE, readLines(settings), keyText[k])
            IN  (raw # None /\ lower(raw[1]) \notin {<<"t", "r", "u", "e">>, <<"f", "a", "l", "s", "e">>})
                  => result'.loaded[k] = Some(SettingsDefaults[k])
       /\ \A k \in ListFields :
            LET raw == rawSetting(None, FALSE, readLines(settings), keyText[k])
            IN  (raw # None /\ ~(startswith(raw[1], <<"[">>) /\ endswith(raw[1], <<"]">>)))
                  => result'.loaded[k] = Some(SettingsDefaults[k])]_vars

\* C21: the settings file that init writes loads to the defaults. After init
\* on a repository with no settings file, load_settings returns for every
\* field the default that save_settings starts from, with no text of a
\* comment in any value.
C21_ScaffoldLoadsDefaults ==
  [][(last'.cmd = "init" /\ settings = Absent) =>
       \A k \in DOMAIN SettingsDefaults :
         load_settings(settings')[k] = Some(SettingsDefaults[k])]_vars

\* ------------------------------------------------------------------------
\* Slugs and branch names
\* ------------------------------------------------------------------------

SLUGCHARS ==
  {LOWERCASE[i] : i \in 1..26} \cup {"0", "1", "2", "3", "4", "5", "6", "7", "8", "9"}

\* re.sub(r"[^a-z0-9]+", "-", s) with every character outside a-z0-9 replaced
\* by a "-" of its own, and not every run of them by one
RECURSIVE reSubDashEach(_, _)
reSubDashEach(s, in_run) ==
  IF s = <<>> THEN <<>>
  ELSE IF Head(s) \in SLUGCHARS THEN <<Head(s)>> \o reSubDashEach(Tail(s), FALSE)
  ELSE <<"-">> \o reSubDashEach(Tail(s), TRUE)

\* re.sub(r"[^a-z0-9]+", "-", s): every maximal run of characters outside
\* a-z0-9 becomes one "-"; in_run says that the run has its "-" already
RECURSIVE reSubDash(_, _)
reSubDash(s, in_run) ==
  IF s = <<>> THEN <<>>
  ELSE IF Head(s) \in SLUGCHARS THEN <<Head(s)>> \o reSubDash(Tail(s), FALSE)
  ELSE (IF in_run THEN <<>> ELSE <<"-">>) \o reSubDash(Tail(s), TRUE)

\* re.sub(r"[^a-z0-9]+", "-", text.lower()).strip("-")
slugify(text) == stripc(reSubDash(lower(text), FALSE), {"-"})

\* to_feature_slug(path_or_title)
to_feature_slug(path_or_title) == slugify(splitextRoot(basename(path_or_title)))

\* s.replace(old, new), for old that is not empty
RECURSIVE replace(_, _, _)
replace(s, old, new) ==
  IF s = <<>> THEN <<>>
  ELSE IF startswith(s, old) THEN new \o replace(sliceFrom(s, Len(old)), old, new)
  ELSE <<Head(s)>> \o replace(Tail(s), old, new)

tk_feature_slug == <<"{", "f", "e", "a", "t", "u", "r", "e", "_", "s", "l", "u", "g", "}">>

tk_id == <<"{", "i", "d", "}">>

tk_slug == <<"{", "s", "l", "u", "g", "}">>

\* compute_feature_branch(path_or_title, settings)
compute_feature_branch(path_or_title, st) ==
  LET pattern == getOr(st.feature_branch_naming, SettingsDefaults.feature_branch_naming)
  IN  replace(pattern, tk_feature_slug, to_feature_slug(path_or_title))

\* task_branch_name(feature_design, task_id, task_title, settings)
task_branch_name(feature_design, task_id, task_title, st) ==
  LET pattern == getOr(st.branch_naming, SettingsDefaults.branch_naming)
      feature_slug == to_feature_slug(feature_design)
      slug == slugify(task_title)
  IN  replace(replace(replace(pattern, tk_feature_slug, feature_slug), tk_id, task_id),
              tk_slug, slug)

\* the longest text that is given to slugify
MaxSlugLen == 4

\* the characters of the texts: a letter in each case, a digit, the dash, and
\* characters that stand for all others: a dot, a slash, an underscore
SlugAlphabet == {"a", "Z", "7", "-", ".", "/", "_"}

SlugInputs == UNION {[1..k -> SlugAlphabet] : k \in 0..MaxSlugLen}

\* task ids, some of which read as a token
TaskIds == {<<"T", "-", "1">>, tk_slug, tk_id, tk_feature_slug}

d_design == <<"d", "o", "c", "s", "/", "M", "y", " ", "D", "e", "s", "i", "g", "n", ".", "m", "d">>

\* the arguments of "feature" and "task-branch" that are tried: any text as
\* the design, and any text as the title with any of the task ids
NamesArgs ==
  {[design |-> t, task_id |-> <<"T", "-", "1">>, task_title |-> <<>>] : t \in SlugInputs}
    \cup {[design |-> d_design, task_id |-> i, task_title |-> t] :
            i \in TaskIds, t \in SlugInputs}

\* a settings file whose patterns hold a token twice and a token that has
\* no binding
st_patterns ==
  File(<<s_settings, <<" ", " ", "f", "e", "a", "t", "u", "r", "e", "_", "b", "r", "a", "n", "c", "h", "_", "n", "a", "m", "i", "n", "g", ":", " ", "{", "f", "e", "a", "t", "u", "r", "e", "_", "s", "l", "u", "g", "}", "/", "{", "i", "d", "}", "/", "{", "f", "e", "a", "t", "u", "r", "e", "_", "s", "l", "u", "g", "}">>,
         <<" ", " ", "b", "r", "a", "n", "c", "h", "_", "n", "a", "m", "i", "n", "g", ":", " ", "\"", "{", "s", "l", "u", "g", "}", "/", "{", "i", "d", "}", "-", "{", "t", "i", "t", "l", "e", "}", "/", "{", "f", "e", "a", "t", "u", "r", "e", "_", "s", "l", "u", "g", "}", ".", "{", "i", "d", "}", "\"">>>>)

\* a repository with no ledger and no task file, with no settings file or
\* one that sets the patterns, and the arguments the two commands are run with
InitNames ==
  /\ index = Absent
  /\ tasks \in {d \in AllDirs : d[n_T1] = Absent /\ d[n_T2] = Absent}
  /\ settings \in {Absent, st_patterns}
  /\ prompts = Absent
  /\ helpers = FALSE
  /\ \E a \in NamesArgs :
       last = [cmd |-> "none", check |-> FALSE, fix |-> FALSE, again |-> FALSE,
               design |-> a.design, task_id |-> a.task_id, task_title |-> a.task_title]
  /\ result = NoResult
  /\ running = NobodyRunning

\* cmd_feature(args): what it prints is the slug and the feature branch
CmdFeature(design) ==
  /\ \E s \in {load_settings(settings)} :
       result' = [exit |-> 0, raised |-> FALSE, issues |-> None,
                  slug |-> to_feature_slug(design),
                  branch |-> compute_feature_branch(design, s)]
  /\ last' = [last EXCEPT !.cmd = "feature"]
  /\ UNCHANGED <<index, tasks, settings, prompts, helpers, running>>

\* cmd_task_branch(args): what it prints is the name of the branch
CmdTaskBranch(design, task_id, task_title) ==
  /\ \E s \in {load_settings(settings)} :
       result' = [exit |-> 0, raised |-> FALSE, issues |-> None,
                  name |-> task_branch_name(design, task_id, task_title, s)]
  /\ last' = [last EXCEPT !.cmd = "task-branch"]
  /\ UNCHANGED <<index, tasks, settings, prompts, helpers, running>>

NextNames ==
  \/ CmdFeature(last.design)
  \/ CmdTaskBranch(last.design, last.task_id, last.task_title)

SpecNames == InitNames /\ [][NextNames]_vars

\* a slug as the specification wants it: only a-z, 0-9 and "-", no "-" at
\* its start or end, no two "-" in a row
isSlug(s) ==
  /\ \A i \in 1..Len(s) : s[i] \in SLUGCHARS \cup {"-"}
  /\ s # <<>> => (s[1] # "-" /\ s[Len(s)] # "-")
  /\ \A i \in 1..(Len(s) - 1) : ~(s[i] = "-" /\ s[i + 1] = "-")

\* C15: slugify is total and idempotent. For every text, the slug that
\* to_feature_slug returns, and the slug task_branch_name makes of a title,
\* holds only characters of a-z, 0-9 and "-", does not start or end with
\* "-", holds no two "-" in a row, and is its own slug.
C15_SlugifyIdempotent ==
  /\ last.cmd = "feature" =>
       /\ isSlug(result.slug)
       /\ to_feature_slug(result.slug) = result.slug
  /\ last.cmd = "task-branch" =>
       /\ isSlug(slugify(last.task_title))
       /\ slugify(slugify(last.task_title)) = slugify(last.task_title)

\* C15: the slug of a text with a capital and a run of two other characters
\* has been computed
C15_Witness ==
  /\ last.cmd = "feature"
  /\ last.design = <<"Z", "_", "_", "a">>
  /\ result.slug = <<"z", "-", "a">>

\* the pattern with every token that has a binding replaced by its value, in
\* one pass from left to right: a value that is put in is not read again
RECURSIVE renderTemplate(_, _)
renderTemplate(pattern, bindings) ==
  IF pattern = <<>> THEN <<>>
  ELSE LET hit == {i \in 1..Len(bindings) : startswith(pattern, bindings[i][1])}
       IN  IF hit = {} THEN <<Head(pattern)>> \o renderTemplate(Tail(pattern), bindings)
           ELSE LET i == CHOOSE j \in hit : TRUE
                IN  bindings[i][2]
                      \o renderTemplate(sliceFrom(pattern, Len(bindings[i][1])), bindings)

\* C16: rendering a template returns the pattern with every occurrence of a
\* token that has a binding replaced by its value, and every other token left
\* as it is, whatever the pattern and the values are, a task id that reads
\* as a token included.
C16_RenderReplacesTokens ==
  LET st == load_settings(settings)
  IN  /\ last.cmd = "feature" =>
           result.branch =
             renderTemplate(getOr(st.feature_branch_naming, SettingsDefaults.feature_branch_naming),
                            <<<<tk_feature_slug, result.slug>>>>)
      /\ last.cmd = "task-branch" =>
           result.name =
             renderTemplate(getOr(st.branch_naming, SettingsDefaults.branch_naming),
                            << <<tk_feature_slug, to_feature_slug(last.design)>>,
                               <<tk_id, last.task_id>>,
                               <<tk_slug, slugify(last.task_title)>> >>)

\* ------------------------------------------------------------------------
\* Registering designs
\* ------------------------------------------------------------------------

\* the designs a ledger holds at most before "add" is no longer tried
MaxDesigns == 4

\* a repository with a few ledgers and a few task files
InitDesigns ==
  /\ index \in SomeLedgers
  /\ tasks \in SomeDirs
  /\ settings = Absent
  /\ prompts = Absent
  /\ helpers = FALSE
  /\ last = [cmd |-> "none", check |-> FALSE, fix |-> FALSE, again |-> FALSE]
  /\ result = NoResult
  /\ running = NobodyRunning

\* "add" for every design document that exists and for the other command
\* lines, interleaved with rebuilds
NextDesigns ==
  \/ \E design \in DesignArgs \cup DesignDocs :
       /\ Len(load_designs_from_index(index)) < MaxDesigns
       /\ CmdAdd(design)
  \/ CmdReindex

SpecDesigns == InitDesigns /\ [][NextDesigns]_vars

noDuplicates(xs) == \A i, j \in 1..Len(xs) : xs[i] = xs[j] => i = j

isPrefix(xs, ys) == Len(xs) <= Len(ys) /\ SubSeq(ys, 1, Len(xs)) = xs

\* C18: "add" on an existing design file and a rebuild keep the designs of
\* the ledger free of duplicates, keep every design registered before at its
\* place, with a new one after them, and "add" on a design that is registered
\* leaves the ledger as it is.
C18_DesignsAppendOnly ==
  [][LET before == load_designs_from_index(index)
         after  == load_designs_from_index(index')
     IN  /\ noDuplicates(before) => noDuplicates(after)
         /\ isPrefix(before, after)
         /\ \A design \in DesignDocs :
              (CmdAdd(design) /\ \E i \in 1..Len(before) : before[i] = design)
                => index' = index]_vars

\* ------------------------------------------------------------------------
\* Two invocations side by side
\* ------------------------------------------------------------------------

\* the text of a file held as its lines; File(<<>>) is the empty file
fileText(file) ==
  IF readLines(file) = <<>> THEN <<>> ELSE join(<<"\n">>, readLines(file)) \o <<"\n">>

\* f.write(txt) and the close of a file opened with "w" some steps before:
\* the text goes to offset 0 of the file as it is by now, and what the file
\* holds past the end of the text stays
writeAtStart(file, txt) ==
  LET old == fileText(file)
  IN  File(splitlines(txt \o (IF Len(old) > Len(txt) THEN SubSeq(old, Len(txt) + 1, Len(old))
                              ELSE <<>>)))

\* an invocation of "add" or "reindex" before its first step
Invocation(cmd, design) ==
  [cmd |-> cmd, design |-> design, pc |-> "load", designs |-> <<>>, out |-> <<>>, order |-> 0]

RaceCmds == {Invocation("add", d_a), Invocation("add", d_b), Invocation("reindex", <<>>)}

\* the ledgers two invocations start on: the one init writes, and two with
\* designs and entries
RaceLedgers ==
  {File(INDEX_YML), File(h_two \o <<s_tasks>> \o e_A1), File(h_noted \o <<s_tasks>> \o e_A1 \o e_A2)}

\* two invocations, one of them "add", on a repository with a ledger
InitRace ==
  /\ index \in RaceLedgers
  /\ tasks \in SomeDirs
  /\ settings = Absent
  /\ prompts = Absent
  /\ helpers = TRUE
  /\ last = [cmd |-> "none", check |-> FALSE, fix |-> FALSE, again |-> FALSE]
  /\ result = NoResult
  /\ running \in {r \in [1..2 -> RaceCmds] : \E p \in 1..2 : r[p].cmd = "add"}

\* cmd_add up to load_designs_from_index and its test, which ends the
\* invocation when the design is registered; cmd_reindex up to the lines it
\* is about to write
RaceLoad(p) ==
  /\ running[p].pc = "load"
  /\ \E designs \in {load_designs_from_index(index)} :
       IF running[p].cmd = "reindex"
       THEN /\ running' = [running EXCEPT ![p].pc = "open", ![p].designs = designs,
                                          ![p].out = readLines(reindexFile(index, tasks))]
            /\ UNCHANGED prompts
       ELSE IF \E i \in 1..Len(designs) : designs[i] = relpath_from_repo(running[p].design)
       THEN /\ running' = [running EXCEPT ![p].pc = "done", ![p].designs = designs]
            /\ prompts' = writeLines(build_prompts_md(designs))
       ELSE /\ running' = [running EXCEPT ![p].pc = "read",
                             ![p].designs = Append(designs, relpath_from_repo(running[p].design))]
            /\ UNCHANGED prompts
  /\ UNCHANGED <<index, tasks, settings, helpers, last, result>>

\* save_designs_to_index up to write_text: the ledger is read again and the
\* lines to write are computed from it
RaceRead(p) ==
  /\ running[p].pc = "read"
  /\ running' = [running EXCEPT ![p].pc = "open",
                   ![p].out = readLines(save_designs_to_index(index, running[p].designs))]
  /\ UNCHANGED <<index, tasks, settings, prompts, helpers, last, result>>

\* write_text: open(path, "w") empties the file
RaceOpen(p) ==
  /\ running[p].pc = "open"
  /\ index' = File(<<>>)
  /\ running' = [running EXCEPT ![p].pc = "write"]
  /\ UNCHANGED <<tasks, settings, prompts, helpers, last, result>>

\* write_text: f.write(txt) and the end of the with block; "add" goes on to
\* update_prompts_with_designs
RaceWrite(p) ==
  /\ running[p].pc = "write"
  /\ index' = writeAtStart(index, fileText(File(running[p].out)))
  /\ running' = [running EXCEPT ![p].pc = "done",
                   ![p].order = 1 + Cardinality({q \in 1..2 : running[q].order > 0})]
  /\ prompts' = IF running[p].cmd = "add" THEN writeLines(build_prompts_md(running[p].designs))
                ELSE prompts
  /\ UNCHANGED <<tasks, settings, helpers, last, result>>

NextRace ==
  \E p \in 1..2 : RaceLoad(p) \/ RaceRead(p) \/ RaceOpen(p) \/ RaceWrite(p)

SpecRace == InitRace /\ [][NextRace]_vars

\* C19: when the invocations have ended, the ledger is what the invocation
\* whose write ended last computed from what it read, and nothing else: no
\* line of the other invocation's write is left in it.
C19_LastWriterWins ==
  (/\ \A p \in DOMAIN running : running[p].pc = "done"
   /\ \E p \in DOMAIN running : running[p].order > 0)
    => \E w \in DOMAIN running :
         /\ \A q \in DOMAIN running : running[q].order <= running[w].order
         /\ index = File(running[w].out)

\* ------------------------------------------------------------------------
\* The prompt file and the designs
\* ------------------------------------------------------------------------

\* a repository with no file of the scaffold, and a few task files
InitPrompts ==
  /\ index = Absent
  /\ tasks \in SomeDirs
  /\ settings = Absent
  /\ prompts = Absent
  /\ helpers = FALSE
  /\ last = [cmd |-> "none", check |-> FALSE, fix |-> FALSE, again |-> FALSE]
  /\ result = NoResult
  /\ running = NobodyRunning

\* "init" with any of its flags, "add" and "reindex"
NextPrompts ==
  \/ \E force \in BOOLEAN, force_index \in BOOLEAN : CmdInit(force, force_index)
  \/ \E design \in DesignArgs : CmdAdd(design)
  \/ CmdReindex

SpecPrompts == InitPrompts /\ [][NextPrompts]_vars

\* C22: after "init", "add" and "reindex" in any order, the design bullets of
\* spec/prompts.md, once the file is there, are the designs the ledger lists,
\* in their order, and "(none yet)" when it lists none.
C22_PromptsFollowDesigns ==
  prompts # Absent =>
    prompts = writeLines(build_prompts_md(load_designs_from_index(index)))

====
